---------------------------- MODULE Spec2Model ----------------------------
(***************************************************************************)
(* A model of the two-phase-locking account store:                         *)
(*   lock_manager.py        WaitForGraph, LockManager                      *)
(*   transaction.py         Transaction                                    *)
(*   transaction_manager.py TransactionManager                             *)
(*   query_processor.py     NodeManager (the storage adapter)              *)
(*                                                                         *)
(* Every transaction is driven by one thread, so a thread and the          *)
(* transaction it drives share one identifier.  The table mutex            *)
(* (LockManager._lock, an RLock shared by every Condition) is held from    *)
(* "with condition:" to the next condition.wait() or to the end of the     *)
(* block, so each such stretch is one atomic step.  _get_condition runs    *)
(* before the mutex is taken and is split into its dictionary accesses.    *)
(***************************************************************************)
EXTENDS Integers, Sequences, FiniteSets, TLC

\* ------------------------------------------------------------------ bounds
NumTxns == 2
NumAccounts == 2
MaxOps == 3
InitialBalance == 2
MaxAmount == 2
MaxValue == 1
MaxCalls == 1
NumClients == 3
MaxAcquires == 2
MaxNew == 2

Txns == 1..NumTxns

\* Every thread there is: the ones of the larger of the two populations.
Threads == 1..(IF NumClients > NumTxns THEN NumClients ELSE NumTxns)
Clients == 1..NumClients
Accounts == 1..NumAccounts

\* ------------------------------------------------------------ lock_manager
SHARED == "S"
EXCLUSIVE == "X"
LockTypes == {SHARED, EXCLUSIVE}

\* The city-to-node routing of the test environment (accounts 1..4).
NodeOf(account_id) ==
    CASE account_id = 1 -> "Kisumu"
      [] account_id = 2 -> "Nairobi"
      [] account_id = 3 -> "Mombasa"
      [] OTHER -> "Kisumu"

get_resource_key(node_name, account_id) == <<node_name, account_id>>

Keys == {get_resource_key(NodeOf(a), a) : a \in Accounts}

LockEntry(lock_type, holders, waiting) ==
    [lock_type |-> lock_type, holders |-> holders, waiting |-> waiting]

None == 0

VARIABLES
    locks,        \* LockManager._locks: resource key -> LockEntry
    lockOrder,    \* the insertion order of the keys of _locks (dict order)
    adj,          \* WaitForGraph.adj: waiter -> set of holders
    conditions,   \* LockManager._conditions: resource key -> condition object
    notified,     \* threads whose condition.wait() was notified
    pc,           \* each thread's position
    lm,           \* each thread's lock-manager call in progress (or last)
    ret,          \* what that call returned: "true", "false", "deadlock"
    rel,          \* release_all_locks: resources_to_release still to do
    nops          \* calls made so far by the thread's caller

lmvars == <<locks, lockOrder, adj, conditions, notified, pc, lm, ret, rel, nops>>

VARIABLES
    balance,              \* the accounts table: account_id -> balance
    txn,                  \* the Transaction object of each thread
    active_transactions,  \* TransactionManager.active_transactions (its keys)
    prog,                 \* what each thread's caller runs
    frame,                \* the TransactionManager call in progress
    out                   \* what the caller's last call returned or raised

VARIABLES
    next_txn_id,  \* Transaction._next_txn_id
    id_lock,      \* Transaction._id_lock: None, or the lock object
    id_held,      \* the lock objects that a thread holds
    alloc,        \* each thread's position in Transaction._get_next_id
    ids           \* the ids taken so far, in the order they were taken

idvars == <<next_txn_id, id_lock, id_held, alloc, ids>>

\* The wait-for graph used on its own: the steps that call its methods
\* directly keep the order of its keys and what detect_deadlock returned.
VARIABLES
    adj_keys,     \* list(self.adj.keys()): the keys in insertion order
    deadlock_victim   \* what the last detect_deadlock returned

graphvars == <<adj_keys, deadlock_victim>>

tmvars ==
    <<balance, txn, active_transactions, prog, frame, out, idvars, graphvars>>

vars == <<locks, lockOrder, adj, conditions, notified, pc, lm, ret, rel, nops,
          balance, txn, active_transactions, prog, frame, out,
          next_txn_id, id_lock, id_held, alloc, ids, adj_keys, deadlock_victim>>

\* ------------------------------------------------------------ WaitForGraph
add_dependency(g, waiter, holder) ==
    LET g1 == IF waiter \in DOMAIN g THEN g ELSE g @@ (waiter :> {})
        g2 == [g1 EXCEPT ![waiter] = @ \cup {holder}]
    IN  IF holder \in DOMAIN g2 THEN g2 ELSE g2 @@ (holder :> {})

remove_transaction(g, txn_id) ==
    [w \in DOMAIN g \ {txn_id} |-> g[w] \ {txn_id}]

\* A remove_waiting that leaves the edges in the graph.
remove_waiting_kept(g, txn_id) == g

remove_waiting(g, txn_id) ==
    IF txn_id \in DOMAIN g THEN [g EXCEPT ![txn_id] = {}] ELSE g

RECURSIVE add_dependencies(_, _, _)
add_dependencies(g, waiter, holderSet) ==
    IF holderSet = {} THEN g
    ELSE LET h == CHOOSE x \in holderSet : \A y \in holderSet : x <= y
         IN  add_dependencies(add_dependency(g, waiter, h), waiter, holderSet \ {h})

\* visit(node) of detect_deadlock: the depth-first search with the two sets
\* visited and stack; the neighbours are taken in increasing order.
RECURSIVE visit(_, _, _, _)
RECURSIVE visit_neighbors(_, _, _, _)
visit_neighbors(g, todo, visited, stack) ==
    IF todo = {} THEN [found |-> FALSE, visited |-> visited]
    ELSE LET neighbor == CHOOSE x \in todo : \A y \in todo : x <= y
         IN  IF neighbor \notin visited
             THEN LET r == visit(g, neighbor, visited, stack)
                  IN  IF r.found THEN r
                      ELSE visit_neighbors(g, todo \ {neighbor}, r.visited, stack)
             ELSE IF neighbor \in stack
                  THEN [found |-> TRUE, visited |-> visited]
                  ELSE visit_neighbors(g, todo \ {neighbor}, visited, stack)

visit(g, node, visited, stack) ==
    visit_neighbors(g, IF node \in DOMAIN g THEN g[node] ELSE {},
                    visited \cup {node}, stack \cup {node})

\* detect_deadlock over the node list `nodes` (list(self.adj.keys())):
\* the first root whose search meets a back edge, or None.
\* A detect_deadlock that searches from the first key only.
detect_from_first(g, nodes, visited) ==
    IF nodes = <<>> THEN None
    ELSE IF visit(g, Head(nodes), visited, {}).found THEN Head(nodes)
    ELSE None

RECURSIVE detect_from(_, _, _)
detect_from(g, nodes, visited) ==
    IF nodes = <<>> THEN None
    ELSE IF Head(nodes) \in visited THEN detect_from(g, Tail(nodes), visited)
    ELSE LET r == visit(g, Head(nodes), visited, {})
         IN  IF r.found THEN Head(nodes)
             ELSE detect_from(g, Tail(nodes), r.visited)

RECURSIVE SetToSeq(_)
SetToSeq(S) ==
    IF S = {} THEN <<>>
    ELSE LET x == CHOOSE v \in S : \A w \in S : v <= w
         IN  <<x>> \o SetToSeq(S \ {x})

\* A detector that finds no cycle.
detect_nothing(g) == None

\* The lock manager only asks whether the victim is None, which does not
\* depend on the order of the roots; they are taken in increasing order.
detect_deadlock(g) == detect_from(g, SetToSeq(DOMAIN g), {})

\* ------------------------------------------------------------- LockManager
Result(L, O, G, outcome) ==
    [locks |-> L, order |-> O, adj |-> G, outcome |-> outcome]

\* A lock manager that lets readers in whatever the mode of the entry.
can_grant_readers_always(entry, lock_type) ==
    lock_type = SHARED \/ Cardinality(entry.holders) = 0

\* A lock manager that grants a lock on a free key only.
can_grant_free_only(entry, lock_type) ==
    Cardinality(entry.holders) = 0

\* A lock manager that grants every request.
can_grant_always(entry, lock_type) == TRUE

\* "Check if lock can be granted" of _try_acquire_lock.
can_grant(entry, lock_type) ==
    IF lock_type = SHARED
    THEN entry.lock_type = SHARED
    ELSE Cardinality(entry.holders) = 0

\* The entry after the grant: a SHARED grant adds the holder, an EXCLUSIVE
\* grant also sets the mode.
grant(entry, txn_id, lock_type) ==
    IF lock_type = SHARED
    THEN [entry EXCEPT !.holders = @ \cup {txn_id}]
    ELSE [entry EXCEPT !.lock_type = EXCLUSIVE, !.holders = @ \cup {txn_id}]

\* One turn of the "while True" of _try_acquire_lock, up to its return, its
\* raise or its condition.wait().
try_acquire_lock(L, O, G, txn_id, key, lock_type, start_waiting) ==
    IF key \notin DOMAIN L
    THEN Result(L @@ (key :> LockEntry(lock_type, {txn_id}, <<>>)),
                Append(O, key), remove_waiting(G, txn_id), "true")
    ELSE IF can_grant(L[key], lock_type)
    THEN Result([L EXCEPT ![key] = grant(@, txn_id, lock_type)],
                O, remove_waiting(G, txn_id), "true")
    ELSE LET conflicting_holders == L[key].holders \ {txn_id}
             G1 == add_dependencies(G, txn_id, conflicting_holders)
             victim == detect_deadlock(G1)
         IN  IF victim # None
             THEN Result(L, O, remove_waiting(G1, txn_id), "deadlock")
             ELSE Result(IF start_waiting THEN L
                         ELSE [L EXCEPT ![key].waiting =
                                   Append(@, <<txn_id, lock_type>>)],
                         O, G1, "acq_wait")

\* A lock manager that upgrades whoever else holds the key.
upgrade_lock_at_once(L, O, G, txn_id, key) ==
    Result([L EXCEPT ![key].lock_type = EXCLUSIVE], O, G, "true")

\* One turn of the "while True" of _upgrade_lock_internal.
upgrade_lock_internal(L, O, G, txn_id, key) ==
    IF Cardinality(L[key].holders) = 1 /\ txn_id \in L[key].holders
    THEN Result([L EXCEPT ![key].lock_type = EXCLUSIVE], O, G, "true")
    ELSE Result(L, O, G, "upg_wait")

\* An acquire_lock that sends a holder through _try_acquire_lock again.
acquire_lock_no_reentry(L, O, G, txn_id, key, lock_type) ==
    IF /\ key \in DOMAIN L /\ txn_id \in L[key].holders
       /\ L[key].lock_type = SHARED /\ lock_type = EXCLUSIVE
    THEN upgrade_lock_internal(L, O, G, txn_id, key)
    ELSE try_acquire_lock(L, O, G, txn_id, key, lock_type, FALSE)

\* acquire_lock, from "with condition:" on.
acquire_lock(L, O, G, txn_id, key, lock_type) ==
    IF key \in DOMAIN L /\ txn_id \in L[key].holders
    THEN IF L[key].lock_type = SHARED /\ lock_type = EXCLUSIVE
         THEN upgrade_lock_internal(L, O, G, txn_id, key)
         ELSE Result(L, O, G, "true")
    ELSE try_acquire_lock(L, O, G, txn_id, key, lock_type, FALSE)

\* upgrade_lock, from "with condition:" on.
upgrade_lock(L, O, G, txn_id, key) ==
    IF key \notin DOMAIN L THEN Result(L, O, G, "false")
    ELSE IF txn_id \notin L[key].holders THEN Result(L, O, G, "false")
    ELSE IF L[key].lock_type = EXCLUSIVE THEN Result(L, O, G, "true")
    ELSE upgrade_lock_internal(L, O, G, txn_id, key)

\* A release_lock that leaves the holder in the table.
release_lock_kept(L, O, G, txn_id, key) == Result(L, O, G, "none")

RemoveKey(L, key) == [k \in DOMAIN L \ {key} |-> L[k]]

\* release_lock, from "with condition:" on; outcome "notify" stands for
\* condition.notify_all().
release_lock(L, O, G, txn_id, key) ==
    IF key \notin DOMAIN L THEN Result(L, O, G, "none")
    ELSE IF txn_id \in L[key].holders
    THEN LET entry == [L[key] EXCEPT !.holders = @ \ {txn_id}]
         IN  IF Cardinality(entry.holders) = 0
             THEN IF entry.waiting # <<>>
                  THEN Result([L EXCEPT ![key] = entry], O, G, "notify")
                  ELSE Result(RemoveKey(L, key),
                              SelectSeq(O, LAMBDA k : k # key), G, "none")
             ELSE Result([L EXCEPT ![key] = entry], O, G, "notify")
    ELSE Result(L, O, G, "none")

\* A timeout that cleans nothing up.
acquire_timeout_kept(L, O, G, txn_id, key) == Result(L, O, G, "false")

\* The timeout branch of _try_acquire_lock.
acquire_timeout(L, O, G, txn_id, key) ==
    Result([L EXCEPT ![key].waiting =
                SelectSeq(@, LAMBDA w : w[1] # txn_id)],
           O, remove_waiting(G, txn_id), "false")

\* A release_all_locks that stops after the first key.
resources_to_release_first(L, O, txn_id) ==
    LET held == SelectSeq(O, LAMBDA k : txn_id \in L[k].holders)
    IN  IF held = <<>> THEN held ELSE <<Head(held)>>

\* resources_to_release of release_all_locks, in the order of _locks.items().
resources_to_release(L, O, txn_id) ==
    SelectSeq(O, LAMBDA k : txn_id \in L[k].holders)

\* get_transaction_locks.
get_transaction_locks(txn_id) ==
    {k \in DOMAIN locks : txn_id \in locks[k].holders}

\* ---------------------------------------------------- lock-manager steps
Call(op, key, lock_type) ==
    [op |-> op, key |-> key, lock_type |-> lock_type, cond |-> None]

NoCall == Call("none", <<"", 0>>, "")

NotReleasing == [active |-> FALSE, todo |-> <<>>]

Waiting == {"acq_wait", "upg_wait"}

\* The threads suspended in condition.wait() on the condition object `cond`
\* of `key`: the ones condition.notify_all() wakes.
Waiters(key, cond) ==
    {u \in Threads : pc[u] \in Waiting /\ lm[u].key = key /\ lm[u].cond = cond}

\* The start of acquire_lock, upgrade_lock or release_lock: the key, and the
\* test "resource_key not in self._conditions" of _get_condition.  An object
\* found there is the one returned.
CallLM(c) ==
    IF c.key \in DOMAIN conditions
    THEN [c EXCEPT !.cond = conditions[c.key]]
    ELSE c

CallPC(c) ==
    IF c.key \in DOMAIN conditions THEN "enter" ELSE "gc_store"

StartCall(t, c) ==
    /\ lm' = [lm EXCEPT ![t] = CallLM(c)]
    /\ pc' = [pc EXCEPT ![t] = CallPC(c)]

\* _get_condition: self._conditions[resource_key] = threading.Condition(..).
\* The new object is named after the thread that made it.
GetConditionStore(t) ==
    /\ pc[t] = "gc_store"
    /\ conditions' = (lm[t].key :> t) @@ conditions
    /\ pc' = [pc EXCEPT ![t] = "gc_read"]
    /\ UNCHANGED <<locks, lockOrder, adj, notified, lm, ret, rel, nops>>
    /\ UNCHANGED tmvars

\* _get_condition: return self._conditions[resource_key].
GetConditionRead(t) ==
    /\ pc[t] = "gc_read"
    /\ lm' = [lm EXCEPT ![t].cond = conditions[lm[t].key]]
    /\ pc' = [pc EXCEPT ![t] = "enter"]
    /\ UNCHANGED <<locks, lockOrder, adj, conditions, notified, ret, rel, nops>>
    /\ UNCHANGED tmvars

\* What a critical section leaves: the table, the graph, and where the
\* thread goes (suspended, or back to its caller with a result).
Leave(t, R) ==
    /\ locks' = R.locks
    /\ lockOrder' = R.order
    /\ adj' = R.adj
    /\ pc' = [pc EXCEPT ![t] =
                 IF R.outcome \in Waiting THEN R.outcome
                 ELSE IF rel[t].active THEN "rel" ELSE "lm_ret"]
    /\ ret' = [ret EXCEPT ![t] =
                  IF R.outcome \in Waiting \/ R.outcome = "notify"
                  THEN "none" ELSE R.outcome]
    /\ notified' = IF R.outcome = "notify"
                   THEN (notified \ {t}) \cup Waiters(lm[t].key, lm[t].cond)
                   ELSE notified \ {t}
    /\ UNCHANGED <<conditions, lm, rel, nops>>
    /\ UNCHANGED tmvars

EnterAcquire(t) ==
    /\ pc[t] = "enter"
    /\ lm[t].op = "acquire"
    /\ Leave(t, acquire_lock(locks, lockOrder, adj, t, lm[t].key, lm[t].lock_type))

EnterUpgrade(t) ==
    /\ pc[t] = "enter"
    /\ lm[t].op = "upgrade"
    /\ Leave(t, upgrade_lock(locks, lockOrder, adj, t, lm[t].key))

EnterRelease(t) ==
    /\ pc[t] = "enter"
    /\ lm[t].op = "release"
    /\ Leave(t, release_lock(locks, lockOrder, adj, t, lm[t].key))

\* condition.wait() returned True: the next turn of the loop.
Wake(t) ==
    /\ pc[t] \in Waiting
    /\ t \in notified
    /\ Leave(t, IF pc[t] = "acq_wait"
                THEN try_acquire_lock(locks, lockOrder, adj, t, lm[t].key,
                                      lm[t].lock_type, TRUE)
                ELSE upgrade_lock_internal(locks, lockOrder, adj, t, lm[t].key))

\* condition.wait() returned False.  The timer may have run out just before
\* a notify_all, so a notified thread can time out as well.
Timeout(t) ==
    /\ pc[t] \in Waiting
    /\ Leave(t, IF pc[t] = "acq_wait"
                THEN acquire_timeout(locks, lockOrder, adj, t, lm[t].key)
                ELSE Result(locks, lockOrder, adj, "false"))

\* release_all_locks: "for resource_key in resources_to_release" with a key
\* left, up to the _get_condition of its release_lock.
ReleaseAllNext(t) ==
    /\ pc[t] = "rel"
    /\ rel[t].todo # <<>>
    /\ StartCall(t, Call("release", Head(rel[t].todo), ""))
    /\ rel' = [rel EXCEPT ![t].todo = Tail(@)]
    /\ UNCHANGED <<locks, lockOrder, adj, conditions, notified, ret, nops>>
    /\ UNCHANGED tmvars

\* ------------------------------------- the lock manager called directly
Idle(t) == pc[t] \in {"idle", "lm_ret"}

LMAcquire(t) ==
    /\ Idle(t) /\ nops[t] < MaxOps
    /\ \E key \in Keys, lock_type \in LockTypes :
          StartCall(t, Call("acquire", key, lock_type))
    /\ nops' = [nops EXCEPT ![t] = @ + 1]
    /\ ret' = [ret EXCEPT ![t] = "none"]
    /\ UNCHANGED <<locks, lockOrder, adj, conditions, notified, rel>>
    /\ UNCHANGED tmvars

LMUpgrade(t) ==
    /\ Idle(t) /\ nops[t] < MaxOps
    /\ \E key \in Keys : StartCall(t, Call("upgrade", key, ""))
    /\ nops' = [nops EXCEPT ![t] = @ + 1]
    /\ ret' = [ret EXCEPT ![t] = "none"]
    /\ UNCHANGED <<locks, lockOrder, adj, conditions, notified, rel>>
    /\ UNCHANGED tmvars

LMRelease(t) ==
    /\ Idle(t) /\ nops[t] < MaxOps
    /\ \E key \in Keys : StartCall(t, Call("release", key, ""))
    /\ nops' = [nops EXCEPT ![t] = @ + 1]
    /\ ret' = [ret EXCEPT ![t] = "none"]
    /\ UNCHANGED <<locks, lockOrder, adj, conditions, notified, rel>>
    /\ UNCHANGED tmvars

\* release_all_locks: the "with self._lock" block that collects the keys.
LMReleaseAll(t) ==
    /\ Idle(t) /\ nops[t] < MaxOps
    /\ rel' = [rel EXCEPT ![t] =
                  [active |-> TRUE,
                   todo |-> resources_to_release(locks, lockOrder, t)]]
    /\ lm' = [lm EXCEPT ![t] = Call("release_all", <<"", 0>>, "")]
    /\ pc' = [pc EXCEPT ![t] = "rel"]
    /\ nops' = [nops EXCEPT ![t] = @ + 1]
    /\ ret' = [ret EXCEPT ![t] = "none"]
    /\ UNCHANGED <<locks, lockOrder, adj, conditions, notified>>
    /\ UNCHANGED tmvars

LMReleaseAllReturn(t) ==
    /\ pc[t] = "rel"
    /\ rel[t].todo = <<>>
    /\ rel' = [rel EXCEPT ![t] = NotReleasing]
    /\ lm' = [lm EXCEPT ![t] = Call("release_all", <<"", 0>>, "")]
    /\ pc' = [pc EXCEPT ![t] = "lm_ret"]
    /\ UNCHANGED <<locks, lockOrder, adj, conditions, notified, ret, nops>>
    /\ UNCHANGED tmvars

\* ------------------------------------------------------------- Transaction
ACTIVE == "active"
COMMITTED == "committed"
ABORTED == "aborted"
GROWING == "growing"
SHRINKING == "shrinking"

LockHeld(node_name, account_id, lock_type) ==
    [node_name |-> node_name, account_id |-> account_id, lock_type |-> lock_type]

Operation(op_type, account_id, value, node_name) ==
    [op_type |-> op_type, account_id |-> account_id, value |-> value,
     node_name |-> node_name]

\* Transaction.__init__
NewTransaction ==
    [state |-> ACTIVE, phase |-> GROWING, held_locks |-> <<>>,
     write_buffer |-> <<>>, read_set |-> <<>>, original_values |-> <<>>]

\* An optional integer: None, or a value.
NoneVal == [none |-> TRUE, v |-> 0]
Val(v) == [none |-> FALSE, v |-> v]

\* add_lock raises unless the transaction is ACTIVE and GROWING.
add_lock_allowed(T) == T.state = ACTIVE /\ T.phase = GROWING

\* An add_lock that appends a record whatever the transaction holds.
add_lock_appended(T, node_name, account_id, lock_type) ==
    [T EXCEPT !.held_locks =
                  Append(@, LockHeld(node_name, account_id, lock_type))]

\* add_lock past its two checks: the first record of the key is upgraded in
\* place, or a record is appended.
add_lock(T, node_name, account_id, lock_type) ==
    LET held == T.held_locks
        same == {i \in 1..Len(held) : /\ held[i].node_name = node_name
                                      /\ held[i].account_id = account_id}
    IN  IF same # {}
        THEN LET i == CHOOSE x \in same : \A y \in same : x <= y
             IN  IF held[i].lock_type = "S" /\ lock_type = "X"
                 THEN [T EXCEPT !.held_locks[i].lock_type = "X"]
                 ELSE T
        ELSE [T EXCEPT !.held_locks =
                           Append(@, LockHeld(node_name, account_id, lock_type))]

record_read(T, node_name, account_id, value) ==
    [T EXCEPT !.read_set = Append(@, <<node_name, account_id>>),
              !.original_values =
                  IF account_id \in DOMAIN @ THEN @
                  ELSE @ @@ (account_id :> value)]

\* A buffer_write that forgets the write.
buffer_write_dropped(T, node_name, account_id, value) == T

\* buffer_write past its check of the state.
buffer_write(T, node_name, account_id, value) ==
    [T EXCEPT !.write_buffer =
                  Append(@, Operation("write", account_id, value, node_name))]

get_original_value(T, account_id) ==
    IF account_id \in DOMAIN T.original_values
    THEN Val(T.original_values[account_id])
    ELSE NoneVal

enter_shrinking_phase(T) ==
    IF T.phase = GROWING THEN [T EXCEPT !.phase = SHRINKING] ELSE T

\* A commit that leaves the state as it is.
commit_unmarked(T) == enter_shrinking_phase(T)

\* Transaction.commit past its check of the state.
commit(T) == [enter_shrinking_phase(T) EXCEPT !.state = COMMITTED]

\* Transaction.abort past its check of the state.
abort(T) == [enter_shrinking_phase(T) EXCEPT !.state = ABORTED]

\* ------------------------------------------------------------- NodeManager
NoNode == ""

\* account_index.get(account_id): the accounts created by the environment.
get_node_for_account(account_id) ==
    IF account_id \in Accounts THEN NodeOf(account_id) ELSE NoNode

read_balance(B, account_id) ==
    IF get_node_for_account(account_id) = NoNode THEN NoneVal
    ELSE Val(B[account_id])

\* A write_balance that stores nothing.
write_balance_lost(B, account_id, value) == [balance |-> B, raised |-> FALSE]

\* write_balance: the table after it, and whether it raised ValueError.
write_balance(B, account_id, value) ==
    IF get_node_for_account(account_id) = NoNode
    THEN [balance |-> B, raised |-> FALSE]
    ELSE IF value < 0
    THEN [balance |-> B, raised |-> TRUE]
    ELSE [balance |-> [B EXCEPT ![account_id] = value], raised |-> FALSE]

\* ------------------------------------------------------ TransactionManager
max_retries == 3

\* The arguments the callers use.
AccountIds == Accounts
Amounts == 1..MaxAmount
Values == (-1)..MaxValue

NoFrame ==
    [op |-> "none", account_id |-> 0, value |-> 0, buf |-> <<>>,
     after |-> "", fn |-> "none", step |-> 0,
     from_account |-> 0, to_account |-> 0, amount |-> 0,
     from_bal |-> NoneVal, to_bal |-> NoneVal, attempt |-> 0]

\* What a call gave its caller; a balance comes with the account it was
\* read from.
NoOut == [status |-> "none", exc |-> "", val |-> 0, account_id |-> 0]
Returned(status, val) ==
    [status |-> status, exc |-> "", val |-> val, account_id |-> 0]
Balance(account_id, val) ==
    [status |-> "value", exc |-> "", val |-> val, account_id |-> account_id]
Raised(exc) == [status |-> "raise", exc |-> exc, val |-> 0, account_id |-> 0]

\* A thread with all it can change in one step of the TransactionManager.
Cur(t) ==
    [pc |-> pc[t], lm |-> lm[t], rel |-> rel[t], frame |-> frame[t],
     out |-> out[t], txn |-> txn[t], active |-> active_transactions,
     balance |-> balance]

Apply(t, N) ==
    /\ pc' = [pc EXCEPT ![t] = N.pc]
    /\ lm' = [lm EXCEPT ![t] = N.lm]
    /\ rel' = [rel EXCEPT ![t] = N.rel]
    /\ frame' = [frame EXCEPT ![t] = N.frame]
    /\ out' = [out EXCEPT ![t] = N.out]
    /\ txn' = [txn EXCEPT ![t] = N.txn]
    /\ active_transactions' = N.active
    /\ balance' = N.balance
    /\ ret' = [ret EXCEPT ![t] = "none"]
    /\ UNCHANGED <<locks, lockOrder, adj, conditions, notified, prog>>
    /\ UNCHANGED <<idvars, graphvars>>

do_call(N, c) == [N EXCEPT !.pc = CallPC(c), !.lm = CallLM(c)]

\* Where a caller outside the TransactionManager goes on: a thread inside
\* execute_transaction is done, another may make its next call.
Back(t) == IF prog[t].kind = "execute" THEN "done" ELSE "idle"

\* An exception that leaves the TransactionManager.
escape(t, N, exc) ==
    [N EXCEPT !.pc = Back(t), !.frame = NoFrame, !.rel = NotReleasing,
              !.out = Raised(exc)]

\* A call of the TransactionManager returns to the caller outside it.
finish(t, N, result) ==
    [N EXCEPT !.pc = Back(t), !.frame = NoFrame, !.rel = NotReleasing,
              !.out = result]

\* An abort_transaction that aborts a committed transaction as well.
abort_transaction_any_state(t, N, after) ==
    [N EXCEPT !.txn = abort(N.txn),
              !.rel = [active |-> TRUE,
                       todo |-> resources_to_release(locks, lockOrder, t)],
              !.pc = "rel",
              !.frame = [NoFrame EXCEPT !.op = "abort", !.after = after,
                                        !.attempt = N.frame.attempt]]

\* abort_transaction up to the "with self._lock" block of release_all_locks;
\* `after` says who called it.
abort_transaction(t, N, after) ==
    IF N.txn.state = COMMITTED
    THEN escape(t, N, "RuntimeError")
    ELSE [N EXCEPT !.txn = abort(N.txn),
                   !.rel = [active |-> TRUE,
                            todo |-> resources_to_release(locks, lockOrder, t)],
                   !.pc = "rel",
                   !.frame = [NoFrame EXCEPT !.op = "abort", !.after = after,
                                             !.attempt = N.frame.attempt]]

\* An exception raised in thread t: the except clause of commit_transaction
\* when inside its try block, else the except clauses of
\* execute_transaction, else the caller.
throw(t, N, exc) ==
    IF N.frame.op = "commit"
    THEN abort_transaction(t, N, "commit")
    ELSE IF prog[t].kind = "execute"
    THEN abort_transaction(t, N, IF exc = "DeadlockException"
                                 THEN "deadlock" ELSE "exception")
    ELSE escape(t, N, exc)

\* The rest of abort_transaction after release_all_locks, and what its
\* caller does next.
abort_finish(t, N) ==
    LET N1 == [N EXCEPT !.active = @ \ {t}]
    IN  CASE N.frame.after = "call" -> finish(t, N1, Returned("null", 0))
          [] N.frame.after = "commit" -> finish(t, N1, Returned("false", 0))
          [] N.frame.after = "exception" -> finish(t, N1, Returned("false", 0))
          [] N.frame.after = "deadlock" ->
                IF N.frame.attempt < max_retries - 1
                THEN escape(t, N1, "AttributeError")
                ELSE finish(t, N1, Returned("false", 0))

\* commit_transaction: txn.commit() and the "with self._lock" block of
\* release_all_locks.
commit_mark(t, N) ==
    IF N.txn.state # ACTIVE
    THEN throw(t, N, "RuntimeError")
    ELSE [N EXCEPT !.txn = commit(N.txn),
                   !.rel = [active |-> TRUE,
                            todo |-> resources_to_release(locks, lockOrder, t)],
                   !.pc = "rel"]

\* commit_transaction: one turn of "for op in write_buffer", or what follows
\* the loop.
flush_next(t, N) ==
    IF N.frame.buf = <<>>
    THEN commit_mark(t, N)
    ELSE LET op == Head(N.frame.buf)
             w == write_balance(N.balance, op.account_id, op.value)
         IN  IF w.raised
             THEN throw(t, N, "ValueError")
             ELSE [N EXCEPT !.balance = w.balance, !.frame.buf = Tail(@),
                            !.pc = "flush"]

\* A commit_transaction that marks and releases with the buffer unapplied.
commit_transaction_unflushed(t, N) ==
    IF N.txn.state # ACTIVE
    THEN throw(t, N, "RuntimeError")
    ELSE commit_mark(t, [N EXCEPT !.frame.op = "commit"])

\* commit_transaction from its start.
commit_transaction(t, N) ==
    IF N.txn.state # ACTIVE
    THEN throw(t, N, "RuntimeError")
    ELSE flush_next(t, [N EXCEPT !.frame.op = "commit",
                                 !.frame.buf = N.txn.write_buffer])

\* The rest of commit_transaction after release_all_locks.
commit_finish(t, N) ==
    IF t \in N.active
    THEN finish(t, [N EXCEPT !.active = @ \ {t}], Returned("true", 0))
    ELSE throw(t, N, "KeyError")

\* execute_read or execute_write returns `v` to the function that called
\* it: _resolve_*, transfer, or the caller outside.
return_to_caller(t, N, v) ==
    IF N.frame.fn = "none"
    THEN finish(t, N, IF N.frame.op = "write" THEN Returned("true", 0)
                      ELSE IF v.none THEN Returned("null", 0)
                      ELSE Balance(N.frame.account_id, v.v))
    ELSE [N EXCEPT !.pc = "hl",
                   !.frame.op = "none",
                   !.frame.from_bal =
                       IF N.frame.op = "read" /\ N.frame.step = 0 THEN v ELSE @,
                   !.frame.to_bal =
                       IF N.frame.op = "read" /\ N.frame.step = 1 THEN v ELSE @,
                   !.frame.step = @ + 1]

\* An execute_read that does not look at the state of the transaction.
execute_read_any_state(t, N, account_id) ==
    LET N1 == [N EXCEPT !.frame.op = "read", !.frame.account_id = account_id,
                        !.frame.value = 0]
    IN  IF get_node_for_account(account_id) = NoNode
        THEN return_to_caller(t, N1, NoneVal)
        ELSE do_call(N1, Call("acquire",
                              get_resource_key(get_node_for_account(account_id),
                                               account_id), SHARED))

\* execute_read up to the _get_condition of acquire_lock.
execute_read(t, N, account_id) ==
    LET N1 == [N EXCEPT !.frame.op = "read", !.frame.account_id = account_id,
                        !.frame.value = 0]
    IN  IF N.txn.state # ACTIVE
        THEN throw(t, N, "RuntimeError")
        ELSE IF get_node_for_account(account_id) = NoNode
        THEN return_to_caller(t, N1, NoneVal)
        ELSE do_call(N1, Call("acquire",
                              get_resource_key(get_node_for_account(account_id),
                                               account_id), SHARED))

\* An execute_write that takes any balance.
execute_write_unchecked(t, N, account_id, value) ==
    LET N1 == [N EXCEPT !.frame.op = "write", !.frame.account_id = account_id,
                        !.frame.value = value]
    IN  IF N.txn.state # ACTIVE
        THEN throw(t, N, "RuntimeError")
        ELSE do_call(N1, Call("acquire",
                              get_resource_key(get_node_for_account(account_id),
                                               account_id), EXCLUSIVE))

\* execute_write up to the _get_condition of acquire_lock.
execute_write(t, N, account_id, value) ==
    LET N1 == [N EXCEPT !.frame.op = "write", !.frame.account_id = account_id,
                        !.frame.value = value]
    IN  IF N.txn.state # ACTIVE
        THEN throw(t, N, "RuntimeError")
        ELSE IF value < 0
        THEN throw(t, N, "ValueError")
        ELSE IF get_node_for_account(account_id) = NoNode
        THEN throw(t, N, "RuntimeError")
        ELSE do_call(N1, Call("acquire",
                              get_resource_key(get_node_for_account(account_id),
                                               account_id), EXCLUSIVE))

\* execute_read after acquire_lock returned or raised.
read_return(t, N) ==
    CASE ret[t] = "deadlock" -> throw(t, N, "DeadlockException")
      [] ret[t] = "false" -> throw(t, N, "RuntimeError")
      [] OTHER ->
            IF ~add_lock_allowed(N.txn)
            THEN throw(t, N, "RuntimeError")
            ELSE return_to_caller(t,
                     [N EXCEPT !.txn = add_lock(@, get_node_for_account(
                                   N.frame.account_id), N.frame.account_id, "S")],
                     read_balance(N.balance, N.frame.account_id))

\* An execute_write that stores the balance at once.
write_through(t, N) ==
    return_to_caller(t,
        [N EXCEPT !.balance = write_balance(@, N.frame.account_id,
                                            N.frame.value).balance],
        NoneVal)

\* execute_write after acquire_lock returned or raised.
write_return(t, N) ==
    CASE ret[t] = "deadlock" -> throw(t, N, "DeadlockException")
      [] ret[t] = "false" -> throw(t, N, "RuntimeError")
      [] OTHER ->
            IF ~add_lock_allowed(N.txn)
            THEN throw(t, N, "RuntimeError")
            ELSE LET a == N.frame.account_id
                     node_name == get_node_for_account(a)
                     T1 == add_lock(N.txn, node_name, a, "X")
                     current_balance == read_balance(N.balance, a)
                     T2 == IF get_original_value(T1, a).none
                              /\ ~current_balance.none
                           THEN record_read(T1, node_name, a, current_balance.v)
                           ELSE T1
                 IN  IF T2.state # ACTIVE
                     THEN throw(t, N, "RuntimeError")
                     ELSE return_to_caller(t,
                              [N EXCEPT !.txn = buffer_write(T2, node_name, a,
                                                             N.frame.value)],
                              NoneVal)

\* _resolve_transfer, _resolve_withdraw, _resolve_deposit and transfer after
\* `step` of their reads and writes have returned.
resolve_next(t, N) ==
    LET f == N.frame
        two == f.fn \in {"resolve_transfer", "transfer"}
    IN  CASE two /\ f.step = 1 -> execute_read(t, N, f.to_account)
          [] two /\ f.step = 2 ->
                IF f.from_bal.none \/ f.to_bal.none
                THEN throw(t, N, "RuntimeError")
                ELSE IF f.from_bal.v < f.amount
                THEN throw(t, N, "RuntimeError")
                ELSE execute_write(t, N, f.from_account, f.from_bal.v - f.amount)
          [] two /\ f.step = 3 ->
                execute_write(t, N, f.to_account, f.to_bal.v + f.amount)
          [] f.fn = "resolve_transfer" /\ f.step = 4 ->
                commit_transaction(t, [N EXCEPT !.frame.fn = "none"])
          [] f.fn = "transfer" /\ f.step = 4 ->
                execute_write(t, N, f.from_account, f.from_bal.v - f.amount)
          [] f.fn = "transfer" /\ f.step = 5 ->
                execute_write(t, N, f.to_account, f.to_bal.v + f.amount)
          [] f.fn = "transfer" /\ f.step = 6 ->
                finish(t, N, Returned("true", 0))
          [] f.fn = "resolve_withdraw" /\ f.step = 1 ->
                IF f.from_bal.none
                THEN throw(t, N, "RuntimeError")
                ELSE IF f.from_bal.v < f.amount
                THEN throw(t, N, "RuntimeError")
                ELSE execute_write(t, N, f.from_account, f.from_bal.v - f.amount)
          [] f.fn = "resolve_deposit" /\ f.step = 1 ->
                IF f.from_bal.none
                THEN throw(t, N, "RuntimeError")
                ELSE execute_write(t, N, f.from_account, f.from_bal.v + f.amount)
          [] f.fn \in {"resolve_withdraw", "resolve_deposit"} /\ f.step = 2 ->
                commit_transaction(t, [N EXCEPT !.frame.fn = "none"])

\* execute_transaction up to the first acquire_lock of its first attempt.
execute_transaction(t, N) ==
    LET p == prog[t]
        N1 == [N EXCEPT !.active = @ \cup {t},
                        !.frame = [NoFrame EXCEPT
                                      !.fn = "resolve_" \o p.txn_type,
                                      !.from_account = p.from_account,
                                      !.to_account = p.to_account,
                                      !.amount = p.amount]]
    IN  execute_read(t, N1, p.from_account)

\* transfer up to the first acquire_lock.
transfer(t, N, from_account, to_account, amount) ==
    IF amount <= 0
    THEN throw(t, N, "ValueError")
    ELSE execute_read(t, [N EXCEPT !.frame = [NoFrame EXCEPT
                                      !.fn = "transfer",
                                      !.from_account = from_account,
                                      !.to_account = to_account,
                                      !.amount = amount]],
                      from_account)

\* ----------------------------------------------- steps of the transactions
\* begin_transaction, called by a thread that uses the manager call by call.
begin_transaction(t) ==
    /\ pc[t] = "new"
    /\ prog[t].kind \in {"manual", "script"}
    /\ Apply(t, [Cur(t) EXCEPT !.pc = "idle", !.txn = NewTransaction,
                               !.active = @ \cup {t}])
    /\ UNCHANGED nops

ExecuteTransaction(t) ==
    /\ pc[t] = "new"
    /\ prog[t].kind = "execute"
    /\ Apply(t, execute_transaction(t, Cur(t)))
    /\ UNCHANGED nops

ReadReturn(t) ==
    /\ pc[t] = "lm_ret"
    /\ frame[t].op = "read"
    /\ Apply(t, read_return(t, Cur(t)))
    /\ UNCHANGED nops

WriteReturn(t) ==
    /\ pc[t] = "lm_ret"
    /\ frame[t].op = "write"
    /\ Apply(t, write_return(t, Cur(t)))
    /\ UNCHANGED nops

ResolveNext(t) ==
    /\ pc[t] = "hl"
    /\ Apply(t, resolve_next(t, Cur(t)))
    /\ UNCHANGED nops

CommitFlush(t) ==
    /\ pc[t] = "flush"
    /\ Apply(t, flush_next(t, Cur(t)))
    /\ UNCHANGED nops

\* release_all_locks has no key left and returns to commit_transaction.
CommitFinish(t) ==
    /\ pc[t] = "rel"
    /\ rel[t].todo = <<>>
    /\ frame[t].op = "commit"
    /\ Apply(t, commit_finish(t, [Cur(t) EXCEPT !.rel = NotReleasing]))
    /\ UNCHANGED nops

\* release_all_locks has no key left and returns to abort_transaction.
AbortFinish(t) ==
    /\ pc[t] = "rel"
    /\ rel[t].todo = <<>>
    /\ frame[t].op = "abort"
    /\ Apply(t, abort_finish(t, [Cur(t) EXCEPT !.rel = NotReleasing]))
    /\ UNCHANGED nops

\* The calls of a thread that uses the manager call by call.
CanCall(t) ==
    /\ pc[t] = "idle"
    /\ prog[t].kind = "manual"

\* execute_read, execute_write and transfer are called MaxCalls times at
\* most by a thread.
CanOperate(t) ==
    /\ CanCall(t)
    /\ nops[t] < MaxCalls

Fresh(t) == [Cur(t) EXCEPT !.frame = NoFrame, !.out = NoOut]

CallExecuteRead(t) ==
    /\ CanOperate(t)
    /\ \E account_id \in AccountIds :
          Apply(t, execute_read(t, Fresh(t), account_id))
    /\ nops' = [nops EXCEPT ![t] = @ + 1]

CallExecuteWrite(t) ==
    /\ CanOperate(t)
    /\ \E account_id \in AccountIds, value \in Values :
          Apply(t, execute_write(t, Fresh(t), account_id, value))
    /\ nops' = [nops EXCEPT ![t] = @ + 1]

CallTransfer(t) ==
    /\ CanOperate(t)
    /\ \E from_account \in AccountIds, to_account \in AccountIds,
          amount \in Amounts :
          Apply(t, transfer(t, Fresh(t), from_account, to_account, amount))
    /\ nops' = [nops EXCEPT ![t] = @ + 1]

CallCommitTransaction(t) ==
    /\ CanCall(t)
    /\ Apply(t, commit_transaction(t, Fresh(t)))
    /\ UNCHANGED nops

CallAbortTransaction(t) ==
    /\ CanCall(t)
    /\ Apply(t, abort_transaction(t, Fresh(t), "call"))
    /\ UNCHANGED nops

\* The next call of a thread that runs a script; an exception that a call
\* raised ends the thread.
CallNext(t) ==
    /\ pc[t] = "idle"
    /\ prog[t].kind = "script"
    /\ out[t].status # "raise"
    /\ nops[t] < Len(prog[t].calls)
    /\ LET call == prog[t].calls[nops[t] + 1]
       IN  Apply(t, CASE call.op = "read" ->
                          execute_read(t, Fresh(t), call.account_id)
                      [] call.op = "write" ->
                          execute_write(t, Fresh(t), call.account_id, call.value)
                      [] call.op = "commit" ->
                          commit_transaction(t, Fresh(t))
                      [] call.op = "abort" ->
                          abort_transaction(t, Fresh(t), "call"))
    /\ nops' = [nops EXCEPT ![t] = @ + 1]

\* ------------------------------------------- the threads of run_scenario_3
\* txn_a_logic and txn_b_logic: the transaction is made and entered in
\* active_transactions, at the top of the first turn of the retry loop.
DemoBegin(t) ==
    /\ pc[t] = "new"
    /\ prog[t].kind = "demo"
    /\ Apply(t, [Cur(t) EXCEPT !.pc = "idle", !.txn = NewTransaction,
                               !.active = @ \cup {t}])
    /\ UNCHANGED nops

\* The next statement of the try block: lock_manager.acquire_lock(...,
\* EXCLUSIVE) on the next account, or tm.commit_transaction(t).  The thread
\* goes on for as long as nothing was raised, and returns after the commit.
DemoNext(t) ==
    /\ pc[t] = "idle"
    /\ prog[t].kind = "demo"
    /\ txn[t].state = ACTIVE
    /\ nops[t] < Len(prog[t].calls)
    /\ LET call == prog[t].calls[nops[t] + 1]
           N == Fresh(t)
       IN  Apply(t, IF call.op = "lock"
                    THEN do_call([N EXCEPT !.frame.op = "lock",
                                           !.frame.account_id = call.account_id],
                                 Call("acquire",
                                      get_resource_key(NodeOf(call.account_id),
                                                       call.account_id),
                                      EXCLUSIVE))
                    ELSE commit_transaction(t, N))
    /\ nops' = [nops EXCEPT ![t] = @ + 1]

\* acquire_lock came back to the thread: on True the try block goes on; on
\* False it raises RuntimeError; a RuntimeError and a DeadlockException both
\* reach "except Exception", which calls tm.abort_transaction(t) and then,
\* as execute_transaction does, returns or (after a deadlock) calls
\* t.reset().
lock_return(t, N) ==
    CASE ret[t] = "deadlock" -> abort_transaction(t, N, "deadlock")
      [] ret[t] = "false" -> abort_transaction(t, N, "exception")
      [] OTHER -> finish(t, N, Returned("true", 0))

LockReturn(t) ==
    /\ pc[t] = "lm_ret"
    /\ frame[t].op = "lock"
    /\ Apply(t, lock_return(t, Cur(t)))
    /\ UNCHANGED nops

\* ---------------------------------------------------------- specifications
Program(kind, txn_type, from_account, to_account, amount, calls) ==
    [kind |-> kind, txn_type |-> txn_type, from_account |-> from_account,
     to_account |-> to_account, amount |-> amount, calls |-> calls]

ExecutePrograms ==
    {Program("execute", "transfer", a, b, m, <<>>) :
          a \in AccountIds, b \in AccountIds, m \in Amounts}
    \cup
    {Program("execute", ty, a, a, m, <<>>) :
          ty \in {"withdraw", "deposit"}, a \in AccountIds, m \in Amounts}

ManualProgram == Program("manual", "", 0, 0, 0, <<>>)

DirectProgram == Program("direct", "", 0, 0, 0, <<>>)

\* A thread outside Transaction._get_next_id, with the number of
\* transactions it has made.
NotAllocating == [pc |-> "out", lock |-> None, txn_id |-> 0, load |-> 0, made |-> 0]

\* A thread that takes no part.
NoProgram == Program("none", "", 0, 0, 0, <<>>)

\* The scripts of the threads of the tests: a reader that commits, a writer
\* that commits, and test_abort_recovery's read, write and abort, all of
\* them on the first account.
ScriptCall(op, account_id, value) ==
    [op |-> op, account_id |-> account_id, value |-> value]

Scripts ==
    {<<ScriptCall("read", 1, 0), ScriptCall("commit", 0, 0)>>,
     <<ScriptCall("write", 1, MaxValue), ScriptCall("commit", 0, 0)>>,
     <<ScriptCall("read", 1, 0), ScriptCall("write", 1, MaxValue),
       ScriptCall("abort", 0, 0)>>}

ScriptPrograms == {Program("script", "", 0, 0, 0, calls) : calls \in Scripts}

\* Thread A of run_scenario_3 locks account 1 and then account 2, thread B
\* account 2 and then account 1; both commit.
DemoPrograms ==
    {Program("demo", "", 0, 0, 0,
             <<ScriptCall("lock", o[1], 0), ScriptCall("lock", o[2], 0),
               ScriptCall("commit", 0, 0)>>) :
         o \in {<<1, 2>>, <<2, 1>>}}

\* The programs of the threads in `running`; the other threads have none.
Programs(running, programs) ==
    {p \in [Threads -> programs \cup {NoProgram}] :
        \A t \in Threads : p[t] = NoProgram <=> t \notin running}

\* The state after construction, with every thread where `at` puts it.
InitAt(at) ==
    /\ locks = <<>>
    /\ lockOrder = <<>>
    /\ adj = <<>>
    /\ conditions = <<>>
    /\ notified = {}
    /\ pc = at
    /\ lm = [t \in Threads |-> NoCall]
    /\ ret = [t \in Threads |-> "none"]
    /\ rel = [t \in Threads |-> NotReleasing]
    /\ nops = [t \in Threads |-> 0]
    /\ balance = [a \in Accounts |-> InitialBalance]
    /\ txn = [t \in Threads |-> NewTransaction]
    /\ active_transactions = {}
    /\ frame = [t \in Threads |-> NoFrame]
    /\ out = [t \in Threads |-> NoOut]
    /\ next_txn_id = 1
    /\ id_lock = None
    /\ id_held = {}
    /\ alloc = [t \in Threads |-> NotAllocating]
    /\ ids = <<>>
    /\ adj_keys = <<>>
    /\ deadlock_victim = None

InitWith(first) == InitAt([t \in Threads |-> first])

LockManagerStep(t) ==
    \/ GetConditionStore(t)
    \/ GetConditionRead(t)
    \/ EnterAcquire(t)
    \/ EnterRelease(t)
    \/ Wake(t)
    \/ Timeout(t)
    \/ ReleaseAllNext(t)

\* The lock manager called directly by its clients.
InitLM ==
    /\ InitWith("idle")
    /\ prog \in Programs(Txns, {DirectProgram})

NextLM ==
    \E t \in Txns :
          \/ LockManagerStep(t)
          \/ EnterUpgrade(t)
          \/ LMAcquire(t)
          \/ LMUpgrade(t)
          \/ LMRelease(t)
          \/ LMReleaseAll(t)
          \/ LMReleaseAllReturn(t)

SpecLM == InitLM /\ [][NextLM]_vars

TransactionStep(t) ==
    \/ ReadReturn(t)
    \/ WriteReturn(t)
    \/ CommitFlush(t)
    \/ CommitFinish(t)
    \/ AbortFinish(t)

\* Threads that each run execute_transaction on a transaction of their own.
Init ==
    /\ InitWith("new")
    /\ prog \in Programs(Txns, ExecutePrograms)

Next ==
    \E t \in Txns :
        \/ LockManagerStep(t)
        \/ TransactionStep(t)
        \/ ExecuteTransaction(t)
        \/ ResolveNext(t)

Spec == Init /\ [][Next]_vars

\* Threads that each begin a transaction and use the manager call by call.
InitAPI ==
    /\ InitWith("new")
    /\ prog \in Programs(Txns, {ManualProgram})

NextAPI ==
    \E t \in Txns :
        \/ LockManagerStep(t)
        \/ TransactionStep(t)
        \/ ResolveNext(t)
        \/ begin_transaction(t)
        \/ CallExecuteRead(t)
        \/ CallExecuteWrite(t)
        \/ CallTransfer(t)
        \/ CallCommitTransaction(t)
        \/ CallAbortTransaction(t)

SpecAPI == InitAPI /\ [][NextAPI]_vars

\* Threads of both kinds side by side.
InitAll ==
    /\ InitWith("new")
    /\ prog \in Programs(Txns, ExecutePrograms \cup {ManualProgram})

NextAll ==
    \E t \in Txns :
        \/ LockManagerStep(t)
        \/ TransactionStep(t)
        \/ ExecuteTransaction(t)
        \/ ResolveNext(t)
        \/ begin_transaction(t)
        \/ CallExecuteRead(t)
        \/ CallExecuteWrite(t)
        \/ CallTransfer(t)
        \/ CallCommitTransaction(t)
        \/ CallAbortTransaction(t)

SpecAll == InitAll /\ [][NextAll]_vars

\* Threads that each begin a transaction and run a script.
InitScript ==
    /\ InitWith("new")
    /\ prog \in Programs(Clients, ScriptPrograms)

NextScript ==
    \E t \in Clients :
        \/ LockManagerStep(t)
        \/ TransactionStep(t)
        \/ begin_transaction(t)
        \/ CallNext(t)

SpecScript == InitScript /\ [][NextScript]_vars

\* The two threads of run_scenario_3, or one of them beside a thread that
\* runs execute_transaction.
InitDemo ==
    /\ InitWith("new")
    /\ prog \in Programs(Txns, DemoPrograms \cup ExecutePrograms)
    /\ \E t \in Txns : prog[t].kind = "demo"

NextDemo ==
    \E t \in Txns :
        \/ LockManagerStep(t)
        \/ TransactionStep(t)
        \/ ExecuteTransaction(t)
        \/ ResolveNext(t)
        \/ DemoBegin(t)
        \/ DemoNext(t)
        \/ LockReturn(t)

SpecDemo == InitDemo /\ [][NextDemo]_vars

\* One thread runs execute_transaction with arguments of any kind, an
\* account that does not exist and amounts that are not positive included,
\* beside a thread that runs it with the usual ones.
WideAccountIds == 1..(NumAccounts + 1)
WideAmounts == (-MaxAmount)..MaxAmount

WidePrograms ==
    {Program("execute", "transfer", a, b, m, <<>>) :
          a \in WideAccountIds, b \in WideAccountIds, m \in WideAmounts}
    \cup
    {Program("execute", ty, a, a, m, <<>>) :
          ty \in {"withdraw", "deposit"}, a \in WideAccountIds,
          m \in WideAmounts}

InitWide ==
    /\ InitWith("new")
    /\ prog \in Programs(Txns, WidePrograms)
    /\ \A t \in Txns \ {1} : prog[t] \in ExecutePrograms

NextWide ==
    \E t \in Txns :
        \/ LockManagerStep(t)
        \/ TransactionStep(t)
        \/ ExecuteTransaction(t)
        \/ ResolveNext(t)

SpecWide == InitWide /\ [][NextWide]_vars

\* Transaction(...) called by the thread itself, as demo_scenarios.py and
\* main.py do: the object is not entered in active_transactions.
ConstructTransaction(t) ==
    /\ pc[t] = "new"
    /\ prog[t].kind = "manual"
    /\ Apply(t, [Cur(t) EXCEPT !.pc = "idle", !.txn = NewTransaction])
    /\ UNCHANGED nops

\* Threads that use the manager call by call: thread 1 on a transaction
\* that it made itself, the others on one from begin_transaction.
OwnThreads == {1}

InitOwn ==
    /\ InitWith("new")
    /\ prog \in Programs(Txns, {ManualProgram})

NextOwn ==
    \/ \E t \in OwnThreads : ConstructTransaction(t)
    \/ \E t \in Txns \ OwnThreads : begin_transaction(t)
    \/ \E t \in Txns :
          \/ LockManagerStep(t)
          \/ TransactionStep(t)
          \/ ResolveNext(t)
          \/ CallExecuteRead(t)
          \/ CallExecuteWrite(t)
          \/ CallTransfer(t)
          \/ CallCommitTransaction(t)
          \/ CallAbortTransaction(t)

SpecOwn == InitOwn /\ [][NextOwn]_vars

\* A client that calls the lock manager directly, as thread 1, beside a
\* thread that runs execute_transaction.
DirectThreads == {1}
ManagedThreads == Txns \ DirectThreads

InitMixed ==
    /\ InitAt([t \in Threads |-> IF t \in DirectThreads THEN "idle" ELSE "new"])
    /\ prog \in Programs(Txns, ExecutePrograms \cup {DirectProgram})
    /\ \A t \in Txns : prog[t] = DirectProgram <=> t \in DirectThreads

NextMixed ==
    \/ \E t \in Txns : LockManagerStep(t)
    \/ \E t \in DirectThreads :
          \/ EnterUpgrade(t)
          \/ LMAcquire(t)
          \/ LMUpgrade(t)
          \/ LMRelease(t)
          \/ LMReleaseAll(t)
          \/ LMReleaseAllReturn(t)
    \/ \E t \in ManagedThreads :
          \/ TransactionStep(t)
          \/ ExecuteTransaction(t)
          \/ ResolveNext(t)

SpecMixed == InitMixed /\ [][NextMixed]_vars

\* All that making transactions leaves alone.
lmtmvars ==
    <<locks, lockOrder, adj, conditions, notified, pc, lm, ret, rel, nops,
      balance, txn, active_transactions, prog, frame, out, graphvars>>

\* Threads that do nothing but make transactions: Transaction() with no
\* txn_id, MaxNew times each, the first calls of the process.
\* "if cls._id_lock is None".
GetNextId(t) ==
    /\ alloc[t].pc = "out"
    /\ alloc[t].made < MaxNew
    /\ alloc' = [alloc EXCEPT ![t].pc =
                    IF id_lock = None THEN "create" ELSE "with"]
    /\ UNCHANGED <<next_txn_id, id_lock, id_held, ids>>
    /\ UNCHANGED lmtmvars

\* "cls._id_lock = threading.Lock()": the new lock is named after the
\* thread that made it.
IdLockCreate(t) ==
    /\ alloc[t].pc = "create"
    /\ id_lock' = t
    /\ alloc' = [alloc EXCEPT ![t].pc = "with"]
    /\ UNCHANGED <<next_txn_id, id_held, ids>>
    /\ UNCHANGED lmtmvars

\* "with cls._id_lock": the attribute is read,
IdLockLoad(t) ==
    /\ alloc[t].pc = "with"
    /\ alloc' = [alloc EXCEPT ![t].pc = "enter", ![t].lock = id_lock]
    /\ UNCHANGED <<next_txn_id, id_lock, id_held, ids>>
    /\ UNCHANGED lmtmvars

\* and the lock it names is taken once it is free.
IdLockEnter(t) ==
    /\ alloc[t].pc = "enter"
    /\ alloc[t].lock \notin id_held
    /\ id_held' = id_held \cup {alloc[t].lock}
    /\ alloc' = [alloc EXCEPT ![t].pc = "read"]
    /\ UNCHANGED <<next_txn_id, id_lock, ids>>
    /\ UNCHANGED lmtmvars

\* "txn_id = cls._next_txn_id".
IdRead(t) ==
    /\ alloc[t].pc = "read"
    /\ alloc' = [alloc EXCEPT ![t].pc = "load", ![t].txn_id = next_txn_id]
    /\ ids' = Append(ids, next_txn_id)
    /\ UNCHANGED <<next_txn_id, id_lock, id_held>>
    /\ UNCHANGED lmtmvars

\* "cls._next_txn_id += 1": the attribute is loaded,
IdLoad(t) ==
    /\ alloc[t].pc = "load"
    /\ alloc' = [alloc EXCEPT ![t].pc = "store", ![t].load = next_txn_id]
    /\ UNCHANGED <<next_txn_id, id_lock, id_held, ids>>
    /\ UNCHANGED lmtmvars

\* and the sum is stored.
IdStore(t) ==
    /\ alloc[t].pc = "store"
    /\ next_txn_id' = alloc[t].load + 1
    /\ alloc' = [alloc EXCEPT ![t].pc = "return"]
    /\ UNCHANGED <<id_lock, id_held, ids>>
    /\ UNCHANGED lmtmvars

\* "return txn_id", which leaves the with block.
IdReturn(t) ==
    /\ alloc[t].pc = "return"
    /\ id_held' = id_held \ {alloc[t].lock}
    /\ alloc' = [alloc EXCEPT ![t].pc = "out", ![t].made = @ + 1]
    /\ UNCHANGED <<next_txn_id, id_lock, ids>>
    /\ UNCHANGED lmtmvars

InitId ==
    /\ InitWith("idle")
    /\ prog = [t \in Threads |-> NoProgram]

NextId ==
    \E t \in Clients :
        \/ GetNextId(t)
        \/ IdLockCreate(t)
        \/ IdLockLoad(t)
        \/ IdLockEnter(t)
        \/ IdRead(t)
        \/ IdLoad(t)
        \/ IdStore(t)
        \/ IdReturn(t)

SpecId == InitId /\ [][NextId]_vars

\* The wait-for graph called directly, over the ids of Clients: any
\* add_dependency (a transaction waiting for itself included),
\* remove_waiting, remove_transaction and detect_deadlock, in any order.
nongraphvars ==
    <<locks, lockOrder, conditions, notified, pc, lm, ret, rel, nops,
      balance, txn, active_transactions, prog, frame, out, idvars>>

\* The keys after the insertions of add_dependency(waiter, holder).
keys_after_add(keys, g, waiter, holder) ==
    LET k1 == IF waiter \in DOMAIN g THEN keys ELSE Append(keys, waiter)
    IN  IF holder \in DOMAIN g \/ holder = waiter THEN k1
        ELSE Append(k1, holder)

AddDependency(waiter, holder) ==
    /\ adj' = add_dependency(adj, waiter, holder)
    /\ adj_keys' = keys_after_add(adj_keys, adj, waiter, holder)
    /\ UNCHANGED deadlock_victim
    /\ UNCHANGED nongraphvars

RemoveTransaction(txn_id) ==
    /\ adj' = remove_transaction(adj, txn_id)
    /\ adj_keys' = SelectSeq(adj_keys, LAMBDA k : k # txn_id)
    /\ UNCHANGED deadlock_victim
    /\ UNCHANGED nongraphvars

RemoveWaiting(txn_id) ==
    /\ adj' = remove_waiting(adj, txn_id)
    /\ UNCHANGED <<adj_keys, deadlock_victim>>
    /\ UNCHANGED nongraphvars

DetectDeadlock ==
    /\ deadlock_victim' = detect_from(adj, adj_keys, {})
    /\ UNCHANGED <<adj, adj_keys>>
    /\ UNCHANGED nongraphvars

InitGraph ==
    /\ InitWith("idle")
    /\ prog = [t \in Threads |-> NoProgram]

NextGraph ==
    \/ \E waiter \in Clients, holder \in Clients : AddDependency(waiter, holder)
    \/ \E txn_id \in Clients : RemoveTransaction(txn_id)
    \/ \E txn_id \in Clients : RemoveWaiting(txn_id)
    \/ DetectDeadlock

SpecGraph == InitGraph /\ [][NextGraph]_vars

\* Clients of the lock manager that only acquire: each makes up to
\* MaxAcquires calls of acquire_lock, a SHARED one and then EXCLUSIVE ones,
\* on accounts that differ, and releases nothing, so nobody is notified.
AcquireCall(account_id, lock_type) ==
    [account_id |-> account_id, lock_type |-> lock_type]

AcquireScripts ==
    {s \in UNION {[1..n -> {AcquireCall(a, ty) : a \in Accounts, ty \in LockTypes}] :
                     n \in 1..MaxAcquires} :
        \A i \in DOMAIN s :
            /\ s[i].lock_type = (IF i = 1 THEN SHARED ELSE EXCLUSIVE)
            /\ \A j \in DOMAIN s : s[i].account_id = s[j].account_id => i = j}

AcquirePrograms == {Program("acquire", "", 0, 0, 0, s) : s \in AcquireScripts}

AcquireNext(t) ==
    /\ Idle(t)
    /\ prog[t].kind = "acquire"
    /\ nops[t] < Len(prog[t].calls)
    /\ LET call == prog[t].calls[nops[t] + 1]
       IN  StartCall(t, Call("acquire",
                             get_resource_key(NodeOf(call.account_id),
                                              call.account_id),
                             call.lock_type))
    /\ nops' = [nops EXCEPT ![t] = @ + 1]
    /\ ret' = [ret EXCEPT ![t] = "none"]
    /\ UNCHANGED <<locks, lockOrder, adj, conditions, notified, rel>>
    /\ UNCHANGED tmvars

InitAcquire ==
    /\ InitWith("idle")
    /\ prog \in Programs(Clients, AcquirePrograms)

NextAcquire ==
    \E t \in Clients :
        \/ GetConditionStore(t)
        \/ GetConditionRead(t)
        \/ EnterAcquire(t)
        \/ Timeout(t)
        \/ AcquireNext(t)

SpecAcquire == InitAcquire /\ [][NextAcquire]_vars

\* ------------------------------------------------------------------ claims
\* The thread has just got True from an acquire_lock(EXCLUSIVE) or an
\* upgrade_lock on `key`.
GotExclusive(t, key) ==
    /\ pc[t] = "lm_ret"
    /\ ret[t] = "true"
    /\ lm[t].key = key
    /\ \/ lm[t].op = "acquire" /\ lm[t].lock_type = EXCLUSIVE
       \/ lm[t].op = "upgrade"

\* C1: no resource key has two distinct holders unless the mode of its entry
\* is SHARED, so an EXCLUSIVE holder is the only holder; and a transaction
\* that got True from an EXCLUSIVE acquire (or an upgrade) is then the one
\* holder of the key, in EXCLUSIVE mode.
C1_MutualExclusion ==
    /\ \A key \in DOMAIN locks :
          Cardinality(locks[key].holders) > 1 => locks[key].lock_type = SHARED
    /\ \A t \in Txns, key \in Keys :
          GotExclusive(t, key) =>
              /\ key \in DOMAIN locks
              /\ locks[key].holders = {t}
              /\ locks[key].lock_type = EXCLUSIVE

\* An EXCLUSIVE acquire has returned True while another transaction is
\* suspended on the same key.
C1_Witness ==
    \E t \in Txns, u \in Txns, key \in Keys :
        /\ t # u
        /\ GotExclusive(t, key)
        /\ lm[t].op = "acquire"
        /\ pc[u] = "acq_wait"
        /\ lm[u].key = key

\* C2: a transaction suspended in acquire(SHARED) on a key whose EXCLUSIVE
\* holder has released it, leaving the key with no holder, is granted the
\* lock (its acquire returns True) the next time it re-evaluates.
C2_SharedWaiterGranted ==
    [][\A t \in Txns :
          (/\ pc[t] = "acq_wait"
           /\ lm[t].lock_type = SHARED
           /\ lm[t].key \in DOMAIN locks
           /\ locks[lm[t].key].lock_type = EXCLUSIVE
           /\ locks[lm[t].key].holders = {}
           /\ Wake(t))
          => ret'[t] = "true"]_vars

\* The thread is suspended in condition.wait() with a request for EXCLUSIVE
\* on `key`: a plain acquire, or the upgrade of its SHARED lock.
SuspendedForExclusive(t, key) ==
    /\ lm[t].key = key
    /\ \/ pc[t] = "acq_wait" /\ lm[t].lock_type = EXCLUSIVE
       \/ pc[t] = "upg_wait"

\* C3: a transaction suspended with an EXCLUSIVE request on a key that every
\* other holder has released has been woken to re-evaluate, so that its
\* acquire returns True after they have released.
C3_GrantedAfterRelease ==
    \A t \in Txns, key \in Keys :
        (/\ SuspendedForExclusive(t, key)
         /\ key \in DOMAIN locks
         /\ locks[key].holders \subseteq {t})
        => t \in notified

\* The thread is at "with condition:" of an acquire_lock(SHARED) on a key
\* that other transactions hold in SHARED mode.
SharedOnShared(t, key) ==
    /\ pc[t] = "enter"
    /\ lm[t].op = "acquire"
    /\ lm[t].lock_type = SHARED
    /\ lm[t].key = key
    /\ key \in DOMAIN locks
    /\ locks[key].lock_type = SHARED
    /\ locks[key].holders \ {t} # {}

\* The transaction is ACTIVE, holds the key of the account, and its last
\* call was an execute_read of the account that returned a balance.
HasRead(t, account_id) ==
    /\ pc[t] = "idle"
    /\ txn[t].state = ACTIVE
    /\ out[t].status = "value"
    /\ out[t].account_id = account_id
    /\ get_resource_key(NodeOf(account_id), account_id)
           \in get_transaction_locks(t)

\* C4: a SHARED request on a key that other transactions hold in SHARED
\* mode is granted at once, without suspending, and joins the holders; a
\* balance is not changed while its key is held in SHARED mode, and the
\* transactions that hold it together have all read the same balance, the
\* stored one.
C4_SharedReaders ==
    [][/\ \A t \in Txns, key \in Keys :
             (SharedOnShared(t, key) /\ pc'[t] # pc[t]) =>
                 /\ pc'[t] = "lm_ret"
                 /\ ret'[t] = "true"
                 /\ locks'[key].lock_type = SHARED
                 /\ locks'[key].holders = locks[key].holders \cup {t}
       /\ \A a \in Accounts :
             LET key == get_resource_key(NodeOf(a), a)
             IN  (/\ key \in DOMAIN locks
                  /\ locks[key].lock_type = SHARED
                  /\ locks[key].holders # {})
                 => balance'[a] = balance[a]
       /\ \A t \in Txns, u \in Txns, a \in Accounts :
             (HasRead(t, a) /\ HasRead(u, a)) =>
                 /\ out[t].val = balance[a]
                 /\ out[u].val = out[t].val]_vars

\* Two transactions hold SHARED on the same key, the second having asked
\* while the first held it, and both have read the balance.
C4_Witness ==
    \E t \in Txns, u \in Txns, a \in Accounts :
        /\ t # u
        /\ HasRead(t, a)
        /\ HasRead(u, a)
        /\ locks[get_resource_key(NodeOf(a), a)].lock_type = SHARED

\* The sum of the stored balances of the accounts in S.
RECURSIVE SumOfBalances(_, _)
SumOfBalances(B, S) ==
    IF S = {} THEN 0
    ELSE LET a == CHOOSE x \in S : TRUE
         IN  B[a] + SumOfBalances(B, S \ {a})

\* C5: when the transactions run through execute_transaction are all
\* TRANSFERs, whatever their accounts and (positive) amounts, the sum of all
\* balances after they have finished is the sum before they started.
C5_TransferConservation ==
    (/\ \A t \in Txns : prog[t].txn_type = "transfer"
     /\ \A t \in Txns : pc[t] = "done")
    => SumOfBalances(balance, Accounts) = NumAccounts * InitialBalance

\* The transaction of program p run alone on the balances B: whether it
\* commits, and the balances it leaves.
RunAlone(B, p) ==
    CASE p.txn_type = "deposit" ->
            [committed |-> TRUE,
             balance |-> [B EXCEPT ![p.from_account] = @ + p.amount]]
      [] p.txn_type = "withdraw" ->
            IF B[p.from_account] < p.amount
            THEN [committed |-> FALSE, balance |-> B]
            ELSE [committed |-> TRUE,
                  balance |-> [B EXCEPT ![p.from_account] = @ - p.amount]]
      [] p.txn_type = "transfer" ->
            IF B[p.from_account] < p.amount
            THEN [committed |-> FALSE, balance |-> B]
            ELSE [committed |-> TRUE,
                  balance |->
                      [[B EXCEPT ![p.from_account] = B[p.from_account] - p.amount]
                          EXCEPT ![p.to_account] = B[p.to_account] + p.amount]]

\* The transactions of the threads in `order` run one at a time on B.
RECURSIVE RunSerially(_, _)
RunSerially(B, order) ==
    IF order = <<>> THEN [committed |-> TRUE, balance |-> B]
    ELSE LET r == RunAlone(B, prog[Head(order)])
         IN  IF r.committed THEN RunSerially(r.balance, Tail(order)) ELSE r

Orders(S) ==
    {o \in [1..Cardinality(S) -> S] : \A i, j \in DOMAIN o : o[i] = o[j] => i = j}

Committed == {t \in Txns : txn[t].state = COMMITTED}

\* C6: when every execute_transaction has returned, the stored balances are
\* the ones that the committed transactions, and only they, produce when
\* run one at a time in some order, each of them committing.
C6_Serializable ==
    (\A t \in Txns : pc[t] = "done") =>
        \E order \in Orders(Committed) :
            LET r == RunSerially([a \in Accounts |-> InitialBalance], order)
            IN  r.committed /\ r.balance = balance

\* Every transaction has committed and two of them wrote the same account.
C6_Witness ==
    /\ \A t \in Txns : pc[t] = "done" /\ txn[t].state = COMMITTED
    /\ \E t \in Txns, u \in Txns :
          /\ t # u
          /\ \E i \in DOMAIN txn[t].write_buffer, j \in DOMAIN txn[u].write_buffer :
                txn[t].write_buffer[i].account_id = txn[u].write_buffer[j].account_id

\* C7: every stored balance is >= 0 in every reachable state, whatever the
\* arguments of the execute_write, transfer, deposit, withdraw and commit
\* operations that ran; no negative balance gets as far as a write buffer.
C7_NonNegative ==
    /\ \A a \in Accounts : balance[a] >= 0
    /\ \A t \in Txns : \A i \in DOMAIN txn[t].write_buffer :
          txn[t].write_buffer[i].value >= 0

\* An execute_write of a negative balance has been refused and a commit has
\* brought an account down to zero.
C7_Witness ==
    /\ \E t \in Txns : out[t].status = "raise" /\ out[t].exc = "ValueError"
    /\ \E t \in Txns, a \in Accounts :
          /\ txn[t].state = COMMITTED
          /\ balance[a] = 0

\* The step is one turn of the flush loop of the commit_transaction of t:
\* it stores the next buffered write of t, and nothing else.
FlushStep(t) ==
    /\ txn[t].state = ACTIVE
    /\ frame'[t].op = "commit"
    /\ pc'[t] = "flush"
    /\ LET done == Len(txn[t].write_buffer) - Len(frame'[t].buf)
       IN  /\ done >= 1
           /\ balance' = [balance EXCEPT
                             ![txn[t].write_buffer[done].account_id] =
                                 txn[t].write_buffer[done].value]

\* C8: a stored balance changes only in a step of commit_transaction that
\* flushes the next write of the write buffer of the committing
\* transaction; no step of execute_read, execute_write, transfer or
\* abort_transaction changes storage.
C8_OnlyCommitWrites ==
    [][balance' # balance => \E t \in Txns : FlushStep(t)]_vars

\* A transaction has buffered a write that differs from the stored balance
\* and has been aborted, and another one has committed a write.
C8_Witness ==
    \E t \in Txns, u \in Txns :
        /\ t # u
        /\ txn[t].state = ABORTED
        /\ \E i \in DOMAIN txn[t].write_buffer :
              txn[t].write_buffer[i].value
                  # balance[txn[t].write_buffer[i].account_id]
        /\ txn[u].state = COMMITTED
        /\ txn[u].write_buffer # <<>>
        /\ balance # [a \in Accounts |-> InitialBalance]

\* abort_transaction has returned for a transaction with buffered writes.
Aborted(t) ==
    /\ txn[t].state = ABORTED
    /\ pc[t] = "idle"
    /\ txn[t].write_buffer # <<>>

\* The thread is at "with condition:" of an acquire_lock on a key that no
\* transaction holds and no thread is suspended on.
AcquireOnFree(t, key) ==
    /\ pc[t] = "enter"
    /\ lm[t].op = "acquire"
    /\ lm[t].key = key
    /\ key \in DOMAIN locks => locks[key].holders = {}
    /\ \A w \in Threads : pc[w] \in Waiting => lm[w].key # key

\* Every thread but `u` is outside the manager: it has not begun, or it is
\* between two calls of its script.
OthersOutside(u) ==
    \A w \in Clients \ {u} : pc[w] \in {"new", "idle"}

\* C9: the steps of abort_transaction on a transaction with buffered writes
\* change no stored balance; when it has returned the transaction holds no
\* lock; and a transaction that then asks for a lock on the account, while
\* nobody holds the account and every other thread is outside the manager,
\* is granted it at once.
C9_AbortRecovery ==
    [][\A t \in Clients :
          /\ (frame'[t].op = "abort" /\ pc'[t] # pc[t]) => balance' = balance
          /\ Aborted(t) => get_transaction_locks(t) = {}
          /\ \A u \in Clients \ {t} :
                LET a == txn[t].write_buffer[1].account_id
                    key == get_resource_key(NodeOf(a), a)
                IN  (/\ Aborted(t)
                     /\ OthersOutside(u)
                     /\ AcquireOnFree(u, key)
                     /\ pc'[u] # pc[u])
                    => ret'[u] = "true"]_vars

\* C10: no step takes a transaction that is still ACTIVE out of the holders
\* of a key: a lock is released only once the state of its transaction is
\* COMMITTED or ABORTED.
C10_StrictTwoPhase ==
    [][\A t \in Txns, key \in Keys :
          (/\ key \in DOMAIN locks
           /\ t \in locks[key].holders
           /\ key \in DOMAIN locks' => t \notin locks'[key].holders)
          => txn[t].state \in {COMMITTED, ABORTED}]_vars

\* A transaction that took locks has committed and released them all,
\* and another one has been aborted and has released its own.
C10_Witness ==
    \E t \in Txns, u \in Txns :
        /\ txn[t].state = COMMITTED
        /\ txn[t].held_locks # <<>>
        /\ get_transaction_locks(t) = {}
        /\ txn[u].state = ABORTED
        /\ txn[u].held_locks # <<>>
        /\ get_transaction_locks(u) = {}

\* The thread is outside the TransactionManager: it has not called it yet,
\* or its last call has returned or raised.
Outside(t) == pc[t] \in {"new", "idle", "done"}

\* C11: once commit_transaction, abort_transaction or execute_transaction
\* has returned, which leaves the transaction COMMITTED or ABORTED, the
\* transaction is among the holders of no key of the lock table, whatever
\* it held and whatever the other threads are doing.
C11_NoLocksAfterReturn ==
    \A t \in Txns :
        (Outside(t) /\ txn[t].state \in {COMMITTED, ABORTED})
        => get_transaction_locks(t) = {}

\* A transaction that took locks on two accounts has returned from its
\* commit and holds nothing, while another transaction still holds a lock.
C11_Witness ==
    \E t \in Txns, u \in Txns :
        /\ Outside(t)
        /\ txn[t].state = COMMITTED
        /\ Len(txn[t].held_locks) >= 2
        /\ get_transaction_locks(t) = {}
        /\ txn[u].state = ACTIVE
        /\ get_transaction_locks(u) # {}

\* The transaction is the one holder of the key, in EXCLUSIVE mode.
HoldsExclusive(t, key) ==
    /\ key \in DOMAIN locks
    /\ locks[key].lock_type = EXCLUSIVE
    /\ locks[key].holders = {t}

\* Threads a and b of run_scenario_3: a holds EXCLUSIVE on k1 and its
\* acquire_lock(EXCLUSIVE) on k2 is suspended, b holds EXCLUSIVE on k2 and
\* is at "with condition:" of its acquire_lock(EXCLUSIVE) on k1.
Crossed(a, b, k1, k2) ==
    /\ prog[a].kind = "demo" /\ prog[b].kind = "demo"
    /\ HoldsExclusive(a, k1) /\ HoldsExclusive(b, k2)
    /\ pc[a] = "acq_wait" /\ lm[a].key = k2 /\ lm[a].lock_type = EXCLUSIVE
    /\ pc[b] = "enter" /\ lm[b].op = "acquire"
    /\ lm[b].key = k1 /\ lm[b].lock_type = EXCLUSIVE

\* The thread of run_scenario_3 got DeadlockException and has called
\* abort_transaction.
Victim(t) ==
    /\ prog[t].kind = "demo"
    /\ txn[t].state = ABORTED
    /\ frame[t].after = "deadlock" \/ out[t] = Raised("AttributeError")

WaitsFor(t, r) ==
    IF (pc[t] \in Waiting \/ t = r) /\ lm[t].key \in DOMAIN locks
    THEN locks[lm[t].key].holders \ {t}
    ELSE {}

\* The transactions reached from those of S along at most n edges.
RECURSIVE ReachedFrom(_, _, _)
ReachedFrom(S, r, n) ==
    IF n = 0 THEN S
    ELSE ReachedFrom(S \cup UNION {WaitsFor(t, r) : t \in S}, r, n - 1)

\* There is a cycle through r in the actual waits-for relation.
RealDeadlock(r) == r \in ReachedFrom(WaitsFor(r, r), r, NumTxns)

\* C13: a step in which acquire_lock raises DeadlockException to r starts
\* in a state whose actual waits-for relation, with the request of r, has a
\* cycle through r.
C13_NoFalseDeadlock ==
    [][\A r \in Txns :
          (pc[r] \in {"enter", "acq_wait"} /\ ret'[r] = "deadlock")
          => RealDeadlock(r)]_vars

\* The transactions a suspended plain acquire waits for: every other
\* transaction that holds its key now.
SuspendedOn(t) ==
    IF pc[t] = "acq_wait" /\ lm[t].key \in DOMAIN locks
    THEN locks[lm[t].key].holders \ {t}
    ELSE {}

RECURSIVE SuspendedReach(_, _)
SuspendedReach(S, n) ==
    IF n = 0 THEN S
    ELSE SuspendedReach(S \cup UNION {SuspendedOn(t) : t \in S}, n - 1)

\* C14: with no transaction in an upgrade wait, the transactions suspended
\* in acquire_lock form no cycle in the actual waits-for relation: every
\* deadlock among plain acquires was raised to its requester when it
\* formed.
C14_DeadlockDetected ==
    (\A t \in Clients : pc[t] # "upg_wait")
    => \A t \in Clients : t \notin SuspendedReach(SuspendedOn(t), NumClients)

\* ------------------------------------------------------- two upgraders
\* t is inside a request for EXCLUSIVE on a key whose SHARED lock it holds:
\* about to run the upgrade, or suspended in it.
Upgrading(t, key) ==
    /\ pc[t] \in {"enter", "upg_wait"}
    /\ lm[t].key = key
    /\ \/ lm[t].op = "upgrade"
       \/ lm[t].op = "acquire" /\ lm[t].lock_type = EXCLUSIVE
    /\ key \in DOMAIN locks
    /\ locks[key].lock_type = SHARED
    /\ t \in locks[key].holders

\* The wait-for edges that leave t in the graph g.
EdgesOf(g, t) == IF t \in DOMAIN g THEN g[t] ELSE {}

\* C15: while two transactions that both hold SHARED on a key are both
\* inside a request for EXCLUSIVE on it, no step gives either of them a
\* DeadlockException or the lock, no step changes their wait-for edges, and
\* the only way either returns is its own timeout, with False; a suspended
\* upgrade is granted only in a state where the transaction is the only
\* holder left.
C15_UpgradeStandoff ==
    [][/\ \A a \in Txns : \A b \in Txns \ {a} : \A key \in Keys :
             (Upgrading(a, key) /\ Upgrading(b, key))
             => /\ ret'[a] \notin {"deadlock", "true"}
                /\ EdgesOf(adj', a) = EdgesOf(adj, a)
                /\ EdgesOf(adj', b) = EdgesOf(adj, b)
                /\ pc'[a] \in {pc[a], "upg_wait", "lm_ret"}
                /\ pc'[a] = "lm_ret"
                   => (pc[a] = "upg_wait" /\ ret'[a] = "false")
       /\ \A t \in Txns :
             (pc[t] = "upg_wait" /\ ret'[t] = "true")
             => locks[lm[t].key].holders = {t}]_vars

\* Two upgraders were suspended on the same key, and one has timed out: it
\* got False, still holds its SHARED lock, and the other is still suspended.
C15_Witness ==
    \E a \in Txns : \E b \in Txns \ {a} : \E key \in Keys :
        /\ pc[a] = "lm_ret" /\ ret[a] = "false"
        /\ lm[a].key = key /\ lm[a].op = "acquire"
        /\ lm[a].lock_type = EXCLUSIVE
        /\ pc[b] = "upg_wait" /\ lm[b].key = key
        /\ locks[key].lock_type = SHARED
        /\ locks[key].holders = {a, b}
        /\ \A t \in DOMAIN adj : adj[t] = {}

\* ------------------------------------------- the retries of one execution
\* abort_transaction, called by the DeadlockException handler of
\* execute_transaction, is about to return to it.
DeadlockAborted(t) ==
    /\ prog[t].kind = "execute"
    /\ pc[t] = "rel"
    /\ rel[t].todo = <<>>
    /\ frame[t].op = "abort"
    /\ frame[t].after = "deadlock"

\* C16: the loop of execute_transaction is never past its third turn, an
\* attempt (a call of _resolve_transfer, _resolve_withdraw or
\* _resolve_deposit) starts only while the transaction holds no key, and
\* when abort_transaction returns to the DeadlockException handler, which
\* is where the next attempt would start from, the transaction holds no
\* key.
C16_BoundedRetry ==
    [][\A t \in Txns :
          prog[t].kind = "execute"
          => /\ frame'[t].attempt < max_retries
             /\ (frame[t].fn = "none" /\ frame'[t].fn # "none")
                => get_transaction_locks(t) = {}
             /\ (DeadlockAborted(t) /\ pc'[t] # "rel")
                => get_transaction_locks(t) = {}]_vars

\* An attempt that had taken a lock ended with DeadlockException, and the
\* abort has released it: the handler is about to go on.
C16_Witness ==
    \E t \in Txns :
        /\ DeadlockAborted(t)
        /\ Len(txn[t].held_locks) >= 1
        /\ get_transaction_locks(t) = {}

\* C17: when execute_transaction is over, the caller has True or False and
\* no exception; True exactly with a COMMITTED transaction, and False only
\* with an ABORTED one.
C17_ReturnsBoolean ==
    \A t \in Txns :
        (prog[t].kind = "execute" /\ pc[t] = "done")
        => /\ out[t].status \in {"true", "false"}
           /\ out[t].status = "true" <=> txn[t].state = COMMITTED
           /\ out[t].status = "false" => txn[t].state = ABORTED

\* C18: when abort_transaction returns to the DeadlockException handler
\* before the third attempt, the handler resets the transaction (ACTIVE,
\* GROWING, nothing held, buffered, read or remembered), keeps its type and
\* arguments, and starts the next attempt.
C18_ResetAndRetry ==
    [][\A t \in Txns :
          (DeadlockAborted(t) /\ frame[t].attempt < max_retries - 1
             /\ pc'[t] # "rel")
          => /\ txn'[t] = NewTransaction
             /\ frame'[t].attempt = frame[t].attempt + 1
             /\ frame'[t].fn = "resolve_" \o prog[t].txn_type
             /\ pc'[t] # "done"]_vars

\* ------------------------------------------------- attempts that fail
\* The "except Exception" clause of execute_transaction is running for t:
\* the attempt raised something other than DeadlockException.
Failing(t) ==
    /\ prog[t].kind = "execute"
    /\ frame[t].op = "abort"
    /\ frame[t].after = "exception"

\* C19: an attempt that raises anything but DeadlockException (funds that
\* do not suffice, an account that does not exist, a balance below zero, a
\* lock that timed out) goes to the abort at once, in the first turn of the
\* loop; the abort changes no balance, and when it is over the call returns
\* False with the transaction ABORTED and among the holders of no key, and
\* the thread does nothing more.  When every call has returned, the
\* balances are those that the committed calls of the usual kind produce
\* one at a time: the failed calls have changed none.
C19_FailureIsFinal ==
    [][\A t \in Txns :
          /\ (frame[t].after # "exception" /\ frame'[t].after = "exception")
             => /\ txn'[t].state = ABORTED
                /\ frame'[t].attempt = 0
                /\ balance' = balance
          /\ (Failing(t) /\ (pc'[t] # pc[t] \/ rel'[t] # rel[t]))
             => balance' = balance
          /\ (Failing(t) /\ pc[t] = "rel" /\ rel[t].todo = <<>>
                /\ pc'[t] # "rel")
             => /\ pc'[t] = "done"
                /\ out'[t] = Returned("false", 0)
                /\ txn'[t].state = ABORTED
                /\ get_transaction_locks(t) = {}
          /\ (pc[t] = "done" /\ out[t].status = "false")
             => (pc'[t] = "done" /\ txn'[t] = txn[t] /\ out'[t] = out[t])
          /\ ((\A u \in Txns : pc'[u] = "done")
                /\ out'[t].status = "false"
                /\ \A u \in Txns : txn'[u].state = COMMITTED
                                   => prog[u] \in ExecutePrograms)
             => \E order \in Orders({u \in Txns : txn'[u].state = COMMITTED}) :
                   RunSerially([a \in Accounts |-> InitialBalance],
                               order).balance = balance']_vars

\* A transfer failed on its second write, holding locks on both accounts
\* and one buffered write; the call returned False, the transaction holds
\* no key, and the balances are those the other call committed.
C19_Witness ==
    \E t \in Txns :
        /\ pc[t] = "done"
        /\ out[t].status = "false"
        /\ txn[t].state = ABORTED
        /\ Len(txn[t].write_buffer) >= 1
        /\ Cardinality({h.account_id : h \in
               {txn[t].held_locks[i] : i \in DOMAIN txn[t].held_locks}}) = 2
        /\ get_transaction_locks(t) = {}
        /\ balance # [a \in Accounts |-> InitialBalance]

\* C20: a call of execute_transaction whose amount is not positive never
\* commits, never returns True, and leaves the balances as they are while
\* no other call has begun.
C20_NonPositiveRejected ==
    \A t \in Txns :
        (prog[t].kind = "execute" /\ prog[t].amount <= 0)
        => /\ txn[t].state # COMMITTED
           /\ out[t].status # "true"
           /\ (\A u \in Txns \ {t} : pc[u] = "new")
              => balance = [a \in Accounts |-> InitialBalance]

\* ------------------------------------------------ one transaction alone
\* The call of t is over and no other thread has begun.
RanAlone(t) ==
    /\ prog[t].kind = "execute"
    /\ pc[t] = "done"
    /\ \A u \in Txns \ {t} : pc[u] = "new"

InitialBalances == [a \in Accounts |-> InitialBalance]

\* C21: execute_transaction run alone with a positive amount n on accounts
\* that exist returns True and leaves exactly these balances: DEPOSIT(a, n)
\* a's balance plus n; WITHDRAW(a, n), with the balance at least n, a's
\* balance minus n; TRANSFER(f, t, n) between two different accounts, with
\* f's balance at least n, f's minus n and t's plus n; every other account
\* as it was.
C21_AloneEffect ==
    \A t \in Txns :
        (RanAlone(t) /\ prog[t].amount > 0
           /\ prog[t].from_account \in Accounts
           /\ prog[t].to_account \in Accounts)
        => LET p == prog[t]
               B == InitialBalances
           IN  CASE p.txn_type = "deposit" ->
                       /\ out[t] = Returned("true", 0)
                       /\ balance = [B EXCEPT ![p.from_account] = @ + p.amount]
                 [] p.txn_type = "withdraw" /\ B[p.from_account] >= p.amount ->
                       /\ out[t] = Returned("true", 0)
                       /\ balance = [B EXCEPT ![p.from_account] = @ - p.amount]
                 [] p.txn_type = "transfer" /\ p.from_account # p.to_account
                       /\ B[p.from_account] >= p.amount ->
                       /\ out[t] = Returned("true", 0)
                       /\ balance = [B EXCEPT ![p.from_account] = @ - p.amount,
                                              ![p.to_account] = @ + p.amount]
                 [] OTHER -> TRUE

\* A transfer between two accounts has run alone and committed.
C21_Witness ==
    \E t \in Txns :
        /\ RanAlone(t)
        /\ prog[t].txn_type = "transfer"
        /\ prog[t].from_account # prog[t].to_account
        /\ txn[t].state = COMMITTED
        /\ balance # InitialBalances

\* ------------------------------------------------- what a commit stores
\* The accounts with a write in the buffer of T, and the value of the last
\* of these writes.
Wrote(T) == {T.write_buffer[i].account_id : i \in DOMAIN T.write_buffer}

LastWrite(T, a) ==
    LET at == {i \in DOMAIN T.write_buffer : T.write_buffer[i].account_id = a}
    IN  T.write_buffer[CHOOSE i \in at : \A j \in at : j <= i].value

\* The thread took a step.
Stepped(t) == pc'[t] # pc[t] \/ frame'[t] # frame[t] \/ rel'[t] # rel[t]

\* No other transaction has committed or is inside its commit.
OnlyCommitter(t) ==
    \A u \in Txns \ {t} : txn[u].state # COMMITTED /\ frame[u].op # "commit"

C23_EntryHasHolders ==
    \A key \in DOMAIN locks :
        /\ locks[key].lock_type = SHARED
           => Cardinality(locks[key].holders) >= 1
        /\ locks[key].lock_type = EXCLUSIVE
           => Cardinality(locks[key].holders) = 1

\* The transactions of entry.waiting.
Listed(key) == {locks[key].waiting[i][1] : i \in DOMAIN locks[key].waiting}

\* C24: a key with no holder and no transaction suspended on it has no
\* entry in the lock table, and entry.waiting names only transactions that
\* are suspended on the key.
C24_EntryOnlyWhileUsed ==
    \A key \in DOMAIN locks :
        /\ (locks[key].holders # {}
            \/ \E t \in Threads : pc[t] \in Waiting /\ lm[t].key = key)
        /\ \A t \in Listed(key) : pc[t] = "acq_wait" /\ lm[t].key = key

\* ------------------------------------------------------ the two phases
\* The transaction may take locks.
Growing(T) == T.state = ACTIVE /\ T.phase = GROWING

\* C25: the phase of a transaction changes only from GROWING to SHRINKING,
\* and only in a step that makes an ACTIVE transaction COMMITTED or
\* ABORTED; while a transaction is not ACTIVE and GROWING no step adds it to
\* the holders of a key or changes its held_locks; and a call made on a
\* COMMITTED or ABORTED transaction (execute_read, execute_write, transfer,
\* commit_transaction) raises RuntimeError with the lock table and the
\* transaction as they were, abort_transaction on an ABORTED one excepted.
C25_NoLockOutsideGrowing ==
    [][\A t \in Txns :
          /\ txn'[t].phase # txn[t].phase
             => /\ txn[t].phase = GROWING /\ txn'[t].phase = SHRINKING
                /\ txn[t].state = ACTIVE
                /\ txn'[t].state \in {COMMITTED, ABORTED}
          /\ ~Growing(txn[t])
             => /\ txn'[t].held_locks = txn[t].held_locks
                /\ \A key \in DOMAIN locks' :
                      t \in locks'[key].holders
                      => (key \in DOMAIN locks /\ t \in locks[key].holders)
          /\ (pc[t] = "idle" /\ txn[t].state \in {COMMITTED, ABORTED}
                /\ Stepped(t))
             => \/ /\ out'[t] = Raised("RuntimeError")
                   /\ locks' = locks
                   /\ txn'[t] = txn[t]
                   /\ pc'[t] = "idle"
                \/ /\ txn[t].state = ABORTED
                   /\ frame'[t].op = "abort"]_vars

\* A call of execute_read, execute_write or transfer was made on a
\* transaction that had committed holding nothing, and raised.
C25_Witness ==
    \E t \in Txns :
        /\ prog[t].kind = "manual"
        /\ pc[t] = "idle"
        /\ txn[t].state = COMMITTED
        /\ nops[t] = 1
        /\ out[t] = Raised("RuntimeError")
        /\ txn[t].held_locks = <<>>
        /\ get_transaction_locks(t) = {}

\* ------------------------------------------------------- finished is final
\* C26: a COMMITTED transaction stays COMMITTED; every call made on a
\* COMMITTED transaction, commit_transaction and abort_transaction
\* included, and commit_transaction on an ABORTED one, raises RuntimeError
\* at once and changes neither the stored balances, the lock table nor the
\* transaction.
C26_FinishedIsFinal ==
    [][\A t \in Txns :
          /\ txn[t].state = COMMITTED => txn'[t].state = COMMITTED
          /\ (pc[t] = "idle" /\ Stepped(t)
                /\ \/ txn[t].state = COMMITTED
                   \/ txn[t].state = ABORTED /\ frame'[t].op # "abort")
             => /\ out'[t] = Raised("RuntimeError")
                /\ balance' = balance
                /\ locks' = locks
                /\ txn'[t] = txn[t]]_vars

\* commit_transaction or abort_transaction was called on a transaction that
\* had committed a write, and raised; the write is stored.
C26_Witness ==
    \E t \in Txns :
        /\ prog[t].kind = "manual"
        /\ pc[t] = "idle"
        /\ txn[t].state = COMMITTED
        /\ Len(txn[t].write_buffer) = 1
        /\ balance[txn[t].write_buffer[1].account_id]
              = txn[t].write_buffer[1].value
        /\ txn[t].write_buffer[1].value # InitialBalance
        /\ out[t] = Raised("RuntimeError")

C28_IdsIncrease ==
    \A i \in DOMAIN ids : \A j \in DOMAIN ids : i < j => ids[i] < ids[j]

\* ---------------------------------------------------- detect_deadlock
\* The nodes reached from those of S along at most n edges of g.
RECURSIVE GraphReach(_, _, _)
GraphReach(g, S, n) ==
    IF n = 0 THEN S
    ELSE GraphReach(g, S \cup UNION {EdgesOf(g, x) : x \in S}, n - 1)

\* v lies on a directed cycle of g.
OnCycle(g, v) == v \in GraphReach(g, EdgesOf(g, v), NumClients)

HasCycle(g) == \E v \in DOMAIN g : OnCycle(g, v)

\* C29: the id that detect_deadlock returns for the graph, when it returns
\* one, lies on a directed cycle of the graph.
C29_VictimOnCycle ==
    LET v == detect_from(adj, adj_keys, {})
    IN  v # None => OnCycle(adj, v)

\* C30: detect_deadlock returns None exactly for the graphs with no
\* directed cycle, a transaction waiting for itself being a cycle, and a
\* call of it leaves the graph and the order of its keys as they were.
C30_DetectsExactly ==
    [][/\ detect_from(adj', adj_keys', {}) = None <=> ~HasCycle(adj')
       /\ deadlock_victim' # deadlock_victim
          => /\ adj' = adj /\ adj_keys' = adj_keys
             /\ deadlock_victim' # None <=> HasCycle(adj)]_vars

\* detect_deadlock has returned an id for a graph whose only cycle does not
\* go through its first key.
C30_Witness ==
    /\ deadlock_victim # None
    /\ Len(adj_keys) = NumClients
    /\ ~OnCycle(adj, adj_keys[1])
    /\ HasCycle(adj)
    /\ detect_from(adj, adj_keys, {}) = deadlock_victim

\* ------------------------------------------------ the order of a commit
\* The transaction has entered commit_transaction and has not been aborted.
Committing(t) ==
    \/ txn[t].state = COMMITTED
    \/ txn[t].state = ACTIVE /\ frame[t].op = "commit"

\* This step gives u the balance of account a as the result of execute_read.
ReadReturns(u, a) ==
    /\ pc[u] = "lm_ret"
    /\ frame[u].op = "read"
    /\ out'[u].status = "value"
    /\ out'[u].account_id = a

\* C31: the step of commit_transaction that marks the transaction COMMITTED
\* finds every account it wrote storing its last buffered write and
\* releases no lock; a step that takes a committing transaction out of the
\* holders of a key finds it COMMITTED and the account of the key storing
\* the last write that the transaction buffered for it, if any; and
\* an execute_read of another transaction that returns the balance of an
\* account written by a transaction that has entered its commit returns
\* the value committed, not the one stored before.
C31_FlushBeforeRelease ==
    [][\A t \in Txns :
          /\ (txn[t].state = ACTIVE /\ txn'[t].state = COMMITTED)
             => /\ frame[t].buf = <<>>
                /\ \A a \in Wrote(txn[t]) : balance[a] = LastWrite(txn[t], a)
                /\ locks' = locks
          /\ \A key \in Keys :
                (/\ frame[t].op = "commit"
                 /\ key \in DOMAIN locks
                 /\ t \in locks[key].holders
                 /\ key \in DOMAIN locks' => t \notin locks'[key].holders)
                => /\ txn[t].state = COMMITTED
                   /\ frame[t].buf = <<>>
                   /\ \A a \in Wrote(txn[t]) :
                         key = get_resource_key(NodeOf(a), a)
                         => balance[a] = LastWrite(txn[t], a)
          /\ \A u \in Txns \ {t} : \A a \in Accounts :
                (ReadReturns(u, a) /\ Committing(t) /\ a \in Wrote(txn[t]))
                => out'[u].val = LastWrite(txn[t], a)]_vars

\* A transaction that wrote a new value to an account is still inside the
\* release_all_locks of its commit, with a key left to release, and another
\* transaction has already read the new value of the account.
C31_Witness ==
    \E t \in Txns, u \in Txns, a \in Accounts :
        /\ t # u
        /\ txn[t].state = COMMITTED
        /\ frame[t].op = "commit"
        /\ pc[t] = "rel"
        /\ rel[t].todo # <<>>
        /\ a \in Wrote(txn[t])
        /\ LastWrite(txn[t], a) # InitialBalance
        /\ out[u] = Balance(a, LastWrite(txn[t], a))
        /\ get_resource_key(NodeOf(a), a) \in get_transaction_locks(u)

\* ----------------------------------------------------- repeatable reads
\* The transaction holds a lock on the key of the account.
HoldsAccount(t, a) ==
    get_resource_key(NodeOf(a), a) \in get_transaction_locks(t)

\* Both execute_read calls of a transfer from an account to itself have
\* returned a balance to thread t.
ReadTwice(t) ==
    /\ frame[t].fn \in {"transfer", "resolve_transfer"}
    /\ frame[t].from_account = frame[t].to_account
    /\ ~frame[t].from_bal.none
    /\ ~frame[t].to_bal.none

\* The two reads of one account gave the same balance, and a pre-image that
\* is recorded is never changed.
SameReadsFixedPreImage(t) ==
    /\ ReadTwice(t) => frame[t].from_bal.v = frame[t].to_bal.v
    /\ \A a \in DOMAIN txn[t].original_values :
          /\ a \in DOMAIN txn'[t].original_values
          /\ txn'[t].original_values[a] = txn[t].original_values[a]

\* C32: two execute_read calls of one ACTIVE transaction on one account
\* return the same balance whatever the other transactions do; a recorded
\* pre-image never changes; and it equals the stored balance for as long as
\* the transaction holds its lock on the account and has not entered
\* commit_transaction.
C32_RepeatableRead ==
    [][\A t \in Txns :
          /\ SameReadsFixedPreImage(t)
          /\ \A a \in DOMAIN txn[t].original_values :
                (txn[t].state = ACTIVE /\ HoldsAccount(t, a) /\ ~Committing(t))
                => txn[t].original_values[a] = balance[a]]_vars

\* C32 as it is worded: the pre-image equals the stored balance for as long
\* as the ACTIVE transaction holds its lock on the account.
C32_AsWorded ==
    [][\A t \in Txns :
          /\ SameReadsFixedPreImage(t)
          /\ \A a \in DOMAIN txn[t].original_values :
                (txn[t].state = ACTIVE /\ HoldsAccount(t, a))
                => txn[t].original_values[a] = balance[a]]_vars

\* A transfer from an account to itself has read the account twice and
\* recorded its pre-image, after another transaction committed a write of a
\* new balance to that account.
C32_Witness ==
    \E t \in Txns, u \in Txns, a \in Accounts :
        /\ t # u
        /\ ReadTwice(t)
        /\ frame[t].from_account = a
        /\ txn[t].state = ACTIVE
        /\ a \in DOMAIN txn[t].original_values
        /\ HoldsAccount(t, a)
        /\ txn[u].state = COMMITTED
        /\ a \in Wrote(txn[u])
        /\ balance[a] # InitialBalance
        /\ txn[t].original_values[a] = balance[a]

\* ------------------------------------------------------------ read sets
\* C33: a step in which execute_read returns the balance of an account
\* leaves the pair of its node and the account in the read_set of the
\* transaction and, when no pre-image of the account was recorded before,
\* records the balance returned as its pre-image.
C33_ReadIsRecorded ==
    [][\A t \in Txns : \A a \in Accounts :
          ReadReturns(t, a)
          => /\ \E i \in DOMAIN txn'[t].read_set :
                   txn'[t].read_set[i] = <<get_node_for_account(a), a>>
             /\ a \notin DOMAIN txn[t].original_values
                => /\ a \in DOMAIN txn'[t].original_values
                   /\ txn'[t].original_values[a] = out'[t].val]_vars

\* ------------------------------------------- the graph after a transaction
\* C34: once commit_transaction or abort_transaction has returned for a
\* transaction, the wait-for graph has no node for it and no edge that
\* points to it.
C34_RemovedFromGraph ==
    \A t \in Txns :
        (Outside(t) /\ txn[t].state \in {COMMITTED, ABORTED})
        => /\ t \notin DOMAIN adj
           /\ \A w \in DOMAIN adj : t \notin adj[w]

\* ------------------------------------------------- edges and suspension
\* C35: a transaction has outgoing edges in the wait-for graph only while
\* it is suspended in the wait of _try_acquire_lock; when acquire_lock has
\* returned True, returned False after a timeout, or raised
\* DeadlockException, the transaction has none.
C35_EdgesOnlyWhileSuspended ==
    \A t \in Txns :
        /\ EdgesOf(adj, t) # {} => pc[t] = "acq_wait"
        /\ (pc[t] = "lm_ret" /\ lm[t].op = "acquire") => EdgesOf(adj, t) = {}

\* acquire_lock has raised DeadlockException to a transaction whose edges
\* had been added, while the other one is still suspended with its own.
C35_Witness ==
    \E t \in Txns, u \in Txns :
        /\ pc[t] = "lm_ret"
        /\ lm[t].op = "acquire"
        /\ ret[t] = "deadlock"
        /\ t \in DOMAIN adj
        /\ EdgesOf(adj, t) = {}
        /\ pc[u] = "acq_wait"
        /\ t \in EdgesOf(adj, u)

\* ------------------------------------------------------ holders that ask
\* The thread is at "with condition:" of an acquire_lock on a key it holds
\* in a mode that covers the request: the entry is EXCLUSIVE, or the request
\* is SHARED.
ReentrantAcquire(t, key) ==
    /\ pc[t] = "enter"
    /\ lm[t].op = "acquire"
    /\ lm[t].key = key
    /\ key \in DOMAIN locks
    /\ t \in locks[key].holders
    /\ locks[key].lock_type = EXCLUSIVE \/ lm[t].lock_type = SHARED

\* C36: an acquire_lock by a holder of the key whose mode covers the request
\* returns True in its first step under the mutex, without suspending, and
\* leaves the lock table (mode, holders and waiters of the entry) and the
\* wait-for graph as they were.
C36_ReentrantAcquire ==
    [][\A t \in Txns, key \in Keys :
          (ReentrantAcquire(t, key) /\ pc'[t] # pc[t])
          => /\ pc'[t] = "lm_ret"
             /\ ret'[t] = "true"
             /\ locks' = locks
             /\ adj' = adj]_vars

\* A SHARED acquire_lock has returned True on a key whose entry is
\* EXCLUSIVE and held by the caller, with another transaction waiting.
C36_Witness ==
    \E t \in Txns, key \in Keys :
        /\ pc[t] = "lm_ret"
        /\ ret[t] = "true"
        /\ lm[t].op = "acquire"
        /\ lm[t].key = key
        /\ lm[t].lock_type = SHARED
        /\ key \in DOMAIN locks
        /\ locks[key].lock_type = EXCLUSIVE
        /\ locks[key].holders = {t}
        /\ locks[key].waiting # <<>>

\* --------------------------------------------------------------- upgrades
\* The thread is at "with condition:" of an upgrade_lock on a key that it
\* does not hold.
UpgradeByStranger(t, key) ==
    /\ pc[t] = "enter"
    /\ lm[t].op = "upgrade"
    /\ lm[t].key = key
    /\ key \in DOMAIN locks => t \notin locks[key].holders

\* The thread is at "with condition:" of an upgrade_lock or of an EXCLUSIVE
\* acquire_lock on a key that it alone holds, in SHARED mode.
UpgradeBySoleHolder(t, key) ==
    /\ pc[t] = "enter"
    /\ \/ lm[t].op = "upgrade"
       \/ lm[t].op = "acquire" /\ lm[t].lock_type = EXCLUSIVE
    /\ lm[t].key = key
    /\ key \in DOMAIN locks
    /\ locks[key].holders = {t}
    /\ locks[key].lock_type = SHARED

\* The records of held_locks for the account.
RecordsOf(T, a) ==
    {i \in DOMAIN T.held_locks : T.held_locks[i].account_id = a}

\* C37: upgrade_lock by a transaction that does not hold the key returns
\* False at once and changes neither the lock table nor the graph;
\* upgrade_lock or an EXCLUSIVE acquire_lock by the one SHARED holder
\* returns True at once with the entry made EXCLUSIVE and nothing else of
\* it changed; and when execute_write then calls add_lock for an account
\* that held_locks already lists, the list keeps its length and has one
\* record for the account, of type X.
C37_Upgrade ==
    [][\A t \in Txns :
          /\ \A key \in Keys :
                /\ (UpgradeByStranger(t, key) /\ pc'[t] # pc[t])
                   => /\ pc'[t] = "lm_ret"
                      /\ ret'[t] = "false"
                      /\ locks' = locks
                      /\ adj' = adj
                /\ (UpgradeBySoleHolder(t, key) /\ pc'[t] # pc[t])
                   => /\ pc'[t] = "lm_ret"
                      /\ ret'[t] = "true"
                      /\ locks' = [locks EXCEPT ![key].lock_type = EXCLUSIVE]
                      /\ adj' = adj
          /\ (/\ pc[t] = "lm_ret" /\ frame[t].op = "write" /\ ret[t] = "true"
              /\ pc'[t] # pc[t]
              /\ RecordsOf(txn[t], frame[t].account_id) # {})
             => /\ Len(txn'[t].held_locks) = Len(txn[t].held_locks)
                /\ \E i \in DOMAIN txn'[t].held_locks :
                      /\ RecordsOf(txn'[t], frame[t].account_id) = {i}
                      /\ txn'[t].held_locks[i].lock_type = "X"]_vars

\* A transfer has read both accounts and written the first: its first
\* record is X and its second still S; and an upgrade_lock of the client
\* has returned False on a key that it does not hold.
C37_Witness ==
    \E t \in ManagedThreads, c \in DirectThreads :
        /\ Len(txn[t].held_locks) = 2
        /\ txn[t].held_locks[1].lock_type = "X"
        /\ txn[t].held_locks[2].lock_type = "S"
        /\ locks[get_resource_key(txn[t].held_locks[1].node_name,
                                  txn[t].held_locks[1].account_id)].lock_type
              = EXCLUSIVE
        /\ pc[c] = "lm_ret"
        /\ lm[c].op = "upgrade"
        /\ ret[c] = "false"
        /\ lm[c].key \in DOMAIN locks
        /\ c \notin locks[lm[c].key].holders

\* ------------------------------------------------------ cycles that stay
\* C38: between the critical sections of the lock manager the wait-for graph
\* has no directed cycle: the acquire_lock that closes one takes the edges
\* of its caller out again before it raises.
C38_GraphAcyclic == ~HasCycle(adj)

\* acquire_lock has raised DeadlockException to a client whose request
\* closed a cycle through a client that is still suspended, and a third
\* client has edges of its own.
C38_Witness ==
    \E t \in Clients, u \in Clients, w \in Clients :
        /\ t # u /\ w \notin {t, u}
        /\ pc[t] = "lm_ret"
        /\ ret[t] = "deadlock"
        /\ pc[u] = "acq_wait"
        /\ t \in EdgesOf(adj, u)
        /\ u \in locks[lm[t].key].holders
        /\ EdgesOf(adj, w) # {}

\* ------------------------------------------------- one condition per key
\* The thread is past _get_condition in a call of the lock manager: at
\* "with condition:", or suspended in condition.wait().
HasCondition(t) == pc[t] \in {"enter", "acq_wait", "upg_wait"}

\* C39: the threads that are inside calls on one resource key all use the
\* same condition object, so the notify_all of a release reaches every
\* thread suspended on the key.
C39_OneConditionPerKey ==
    \A t \in Txns, u \in Txns :
        (HasCondition(t) /\ HasCondition(u) /\ lm[t].key = lm[u].key)
        => lm[t].cond = lm[u].cond

\* ------------------------------------------------- what a commit returns
\* C40: a commit_transaction that was called on an ACTIVE transaction ends
\* by returning True with the transaction COMMITTED or False with it
\* ABORTED, never by raising, and the transaction then holds no lock;
\* whether or not the transaction is in active_transactions.
C40_CommitNeverRaises ==
    [][\A t \in Txns :
          (frame[t].op = "commit" /\ pc[t] # "idle" /\ pc'[t] = "idle")
          => /\ \/ out'[t].status = "true" /\ txn'[t].state = COMMITTED
                \/ out'[t].status = "false" /\ txn'[t].state = ABORTED
             /\ \A key \in DOMAIN locks' : t \notin locks'[key].holders]_vars

====
